---------------------------- MODULE Spec2Model ----------------------------
(***************************************************************************)
(* A model of the typewheel component library: the Style record and its    *)
(* merge, the component tree, the flat and the visiting iterators and the  *)
(* legacy control-code codec.                                              *)
(*                                                                         *)
(* A component tree is a sequence of nodes; a node's index is its          *)
(* identity (the iterators hand out references, &Component).  Node 1 is    *)
(* the root.  Each other node names its parent and whether it sits in the  *)
(* parent's `extra` vector or in the `with` vector of the parent's         *)
(* Translation content; within one vector the children are ordered by      *)
(* index.  An Option<T> is the empty set (None) or a singleton (Some(v)).  *)
(***************************************************************************)
EXTENDS Integers, Sequences, FiniteSets, TLC

VARIABLES
    mode,      \* which object of the library this behaviour exercises
    tree,      \* the component tree borrowed by the iterators / the encoder
    flat,      \* the FlatIterator struct (src/iter/tree.rs)
    ci,        \* the ComponentIterator struct (src/iter.rs)
    vis,       \* the VisitingIterator struct (src/iter/visit.rs)
    yielded,   \* what the calls of next() returned so far, None excluded
    nones,     \* how many calls of next() returned None
    enc,       \* LegacyCodec::serialize: its locals `styles`, `out` and a log
    dec,       \* LegacyCodec::deserialize: its input and its result
    sty,       \* Style::merge: self before, the argument, self after
    call       \* one call of a method or a serde function: argument, result

vars == <<mode, tree, flat, ci, vis, yielded, nones, enc, dec, sty, call>>

---------------------------------------------------------------------------
(* Bounds of the model.                                                    *)

\* Largest number of nodes of an enumerated tree.
MaxNodes == 5

\* Calls of next() made after the first None.
MaxNoneCalls == 2

---------------------------------------------------------------------------
(* Option<T>.                                                              *)

None == {}

Some(v) == {v}

IsSome(o) == o # {}

Unwrap(o) == CHOOSE v \in o : TRUE

---------------------------------------------------------------------------
(* TextColor (src/style.rs): one of the 16 named colors, or Hex(u32).      *)

Named(c) == [name |-> c]

Hex(v) == [name |-> "Hex", value |-> v]

\* A u32 is the pair of its upper and lower 16 bits, so that the values up
\* to u32::MAX are at hand; U32(n) is the u32 of a number below 2^31.
U32(n) == <<n \div 65536, n % 65536>>

\* u32::MAX
U32_MAX == <<65535, 65535>>

---------------------------------------------------------------------------
(* Sequence helpers standing for Vec / VecDeque / slice operations.        *)

\* slice.iter().rev()
RECURSIVE Rev(_)
Rev(s) == IF s = <<>> THEN <<>> ELSE Append(Rev(Tail(s)), Head(s))

\* for x in s { q.push_front(x) }
RECURSIVE PushFrontAll(_, _)
PushFrontAll(q, s) ==
    IF s = <<>> THEN q ELSE PushFrontAll(<<Head(s)>> \o q, Tail(s))

\* for x in s { q.push_back(x) }, also VecDeque::extend
RECURSIVE PushBackAll(_, _)
PushBackAll(q, s) ==
    IF s = <<>> THEN q ELSE PushBackAll(Append(q, Head(s)), Tail(s))

Max(a, b) == IF a >= b THEN a ELSE b

\* The elements of a sequence.
Range(s) == {s[i] : i \in DOMAIN s}

\* The indices of a finite set of integers in increasing order.
RECURSIVE SortedSeq(_)
SortedSeq(S) ==
    IF S = {} THEN <<>>
    ELSE LET m == CHOOSE x \in S : \A y \in S : x <= y
         IN <<m>> \o SortedSeq(S \ {m})

---------------------------------------------------------------------------
(* The component tree.                                                     *)

\* Component.extra of node i, as the vector of its children.
Extra(t, i) ==
    SortedSeq({j \in DOMAIN t : t[j].parent = i /\ t[j].link = "extra"})

\* The `with` vector of node i's Translation content.
With(t, i) ==
    SortedSeq({j \in DOMAIN t : t[j].parent = i /\ t[j].link = "with"})

\* Content of node i: its variant and, for Text, its string.
ContentKind(t, i) == t[i].kind

Root == 1

\* A node as Component::text(..) etc. build it: a blank style, no children.
BLANK ==
    [bold |-> None, italic |-> None, underlined |-> None,
     strikethrough |-> None, obfuscated |-> None, font |-> None,
     color |-> None, insertion |-> None, click_event |-> None,
     hover_event |-> None]

Node(parent, link, kind, text, style) ==
    [parent |-> parent, link |-> link, kind |-> kind, text |-> text,
     style |-> style]

\* The ancestors of node i, itself included, under the parent vector p.
RECURSIVE AncestorsOrSelf(_, _)
AncestorsOrSelf(p, i) ==
    IF i = 0 THEN {} ELSE {i} \cup AncestorsOrSelf(p, p[i])

\* Every shape of an ordered tree with n nodes, as its parent vector; the
\* nodes are numbered in the order they are attached, a new node hanging
\* under a node of the path from the root to the node attached before it.
Shapes(n) ==
    {p \in [1 .. n -> 0 .. n - 1] :
        /\ p[1] = 0
        /\ \A i \in 2 .. n : p[i] \in 1 .. i - 1
        /\ \A i \in 2 .. n : p[i] \in AncestorsOrSelf(p, i - 1)}

\* The trees with n nodes in which every non-root node is an `extra` child or
\* a translation argument; a node with arguments has Translation content, the
\* others have Text content.
LinkedTrees(n) ==
    {[i \in 1 .. n |->
        Node(p[i],
             IF i = 1 THEN "root" ELSE l[i],
             IF \E j \in 1 .. n : p[j] = i /\ j # 1 /\ l[j] = "with"
                THEN "Translation" ELSE "Text",
             <<>>, BLANK)] :
        p \in Shapes(n), l \in [1 .. n -> {"extra", "with"}]}

\* tests/common.rs deeply_nested(): a{b{c,d}, e{f{g,h}}}.  The nodes are
\* numbered a, b, e, c, d, f, g, h.
deeply_nested ==
    <<Node(0, "root",  "Text", <<"a">>, BLANK),
      Node(1, "extra", "Text", <<"b">>, BLANK),
      Node(1, "extra", "Text", <<"e">>, BLANK),
      Node(2, "extra", "Text", <<"c">>, BLANK),
      Node(2, "extra", "Text", <<"d">>, BLANK),
      Node(3, "extra", "Text", <<"f">>, BLANK),
      Node(6, "extra", "Text", <<"g">>, BLANK),
      Node(6, "extra", "Text", <<"h">>, BLANK)>>

\* The trees the iterators are run over.
IterTrees == {deeply_nested} \cup UNION {LinkedTrees(n) : n \in 1 .. MaxNodes}

\* Component::shallow_text (src/component.rs): Some(text) for Text content.
shallow_text(t, i) ==
    IF t[i].kind = "Text" THEN Some(t[i].text) ELSE None

---------------------------------------------------------------------------
(* FlatIterator (src/iter/tree.rs).                                        *)

FlatIterator_new(t, root) ==
    [queue |-> <<root>>,
     order |-> "DepthFirst",
     include_translate_args |-> FALSE,
     size_hint |-> Len(Extra(t, root))]

with_translate_args(self) == [self EXCEPT !.include_translate_args = TRUE]

with_order(self, order) == [self EXCEPT !.order = order]

\* Mutant: the arguments are spliced in whether or not the flag is set.
TranslateArgs_always(self, t, item) ==
    IF t[item].kind = "Translation" THEN With(t, item) ELSE <<>>

\* The arguments the iterator splices in for item: those of a Translation,
\* when the flag is set.
TranslateArgs(self, t, item) ==
    IF self.include_translate_args /\ ContentKind(t, item) = "Translation"
    THEN With(t, item) ELSE <<>>

\* Mutant: the children are put at the front of the queue.
FlatBreadthFirst_front(queue, args, extra) ==
    PushFrontAll(PushFrontAll(queue, Rev(args)), Rev(extra))

\* The BreadthFirst arm: queue.extend(args); queue.extend(extra).
FlatBreadthFirst(queue, args, extra) ==
    PushBackAll(PushBackAll(queue, args), extra)

\* Mutant: the children are pushed to the front without being reversed.
FlatDepthFirst_unreversed(queue, args, extra) ==
    PushFrontAll(PushFrontAll(queue, args), extra)

\* The DepthFirst arm: the args are pushed to the front in reverse, and then
\* the extra children are pushed to the front in reverse.
FlatDepthFirst(queue, args, extra) ==
    PushFrontAll(PushFrontAll(queue, Rev(args)), Rev(extra))

\* Mutant: the front of the queue is read but not popped.
FlatIterator_next_peek(self, t) ==
    IF self.queue = <<>>
    THEN [self |-> self, item |-> None]
    ELSE LET item == Head(self.queue)
         IN [self |-> [self EXCEPT !.queue =
                          PushFrontAll(self.queue, Rev(Extra(t, item)))],
             item |-> Some(item)]

\* FlatIterator::next: the iterator afterwards and the Option returned.
FlatIterator_next(self, t) ==
    IF self.queue = <<>>
    THEN [self |-> self, item |-> None]
    ELSE LET item  == Head(self.queue)
             rest  == Tail(self.queue)
             extra == Extra(t, item)
             args  == TranslateArgs(self, t, item)
         IN [self |-> [self EXCEPT !.queue =
                          IF self.order = "BreadthFirst"
                          THEN FlatBreadthFirst(rest, args, extra)
                          ELSE FlatDepthFirst(rest, args, extra)],
             item |-> Some(item)]

\* FlatIterator::size_hint: the lower bound of the pair.
FlatIterator_size_hint(self) == Max(self.size_hint, Len(self.queue))

---------------------------------------------------------------------------
(* ComponentIterator (src/iter.rs), the crate-private iterator.            *)

ComponentIterator_new(root, order) == [queue |-> <<root>>, order |-> order]

ComponentIterator_next(self, t) ==
    IF self.queue = <<>>
    THEN [self |-> self, item |-> None]
    ELSE LET item == Head(self.queue)
             rest == Tail(self.queue)
         IN [self |-> [self EXCEPT !.queue =
                          IF self.order = "DepthFirst"
                          THEN PushFrontAll(rest, Rev(Extra(t, item)))
                          ELSE PushBackAll(rest, Extra(t, item))],
             item |-> Some(item)]

---------------------------------------------------------------------------
(* VisitingIterator (src/iter/visit.rs).  A Visit is <<"Push", node>> or   *)
(* <<"Pop", node>>.                                                        *)

Push(i) == <<"Push", i>>

Pop(i) == <<"Pop", i>>

VisitingIterator_new(t, root) ==
    [queue |-> <<Push(root)>>, size_hint |-> Len(Extra(t, root))]

\* Mutant: the children are pushed to the front without being reversed.
PushChildren_unreversed(queue, extra) ==
    PushFrontAll(queue, [k \in DOMAIN extra |-> Push(extra[k])])

\* for child in extra.iter().rev() { queue.push_front(Visit::Push(child)) }
PushChildren(queue, extra) ==
    PushFrontAll(queue, [k \in DOMAIN extra |-> Push(Rev(extra)[k])])

VisitingIterator_next(self, t) ==
    IF self.queue = <<>>
    THEN [self |-> self, item |-> None]
    ELSE LET op   == Head(self.queue)
             rest == Tail(self.queue)
         IN [self |-> [self EXCEPT !.queue =
                          IF op[1] = "Push"
                          THEN PushChildren(<<Pop(op[2])>> \o rest,
                                            Extra(t, op[2]))
                          ELSE rest],
             item |-> Some(op)]

VisitingIterator_size_hint(self) == Max(Len(self.queue), self.size_hint)


---------------------------------------------------------------------------
(* The iterators as a state machine: one iterator is created over the      *)
(* borrowed tree, configured by its builder methods and then advanced by   *)
(* calls of next().                                                        *)

\* The value of a variable that the behaviour at hand does not use.
Idle == [idle |-> TRUE]

Orders == {"DepthFirst", "BreadthFirst"}

NotStarted == yielded = <<>> /\ nones = 0

InitIter ==
    /\ mode \in {"flat", "compiter", "visit"}
    /\ tree \in IterTrees
    /\ flat = IF mode = "flat" THEN FlatIterator_new(tree, Root) ELSE Idle
    /\ ci \in IF mode = "compiter"
              THEN {ComponentIterator_new(Root, o) : o \in Orders}
              ELSE {Idle}
    /\ vis = IF mode = "visit" THEN VisitingIterator_new(tree, Root) ELSE Idle
    /\ yielded = <<>>
    /\ nones = 0
    /\ enc = Idle
    /\ dec = Idle
    /\ call = Idle
    /\ sty = Idle

\* component.iter().with_translate_args()
FlatWithTranslateArgs ==
    /\ mode = "flat"
    /\ NotStarted
    /\ ~flat.include_translate_args
    /\ flat' = with_translate_args(flat)
    /\ UNCHANGED <<mode, tree, ci, vis, yielded, nones, enc, dec, sty, call>>

\* component.iter().with_order(order)
FlatWithOrder ==
    /\ mode = "flat"
    /\ NotStarted
    /\ \E o \in Orders : o # flat.order /\ flat' = with_order(flat, o)
    /\ UNCHANGED <<mode, tree, ci, vis, yielded, nones, enc, dec, sty, call>>

\* What a call of next() that returned r leaves in the log.
Logged(r) ==
    /\ IsSome(r.item) \/ nones < MaxNoneCalls
    /\ yielded' = IF IsSome(r.item) THEN Append(yielded, Unwrap(r.item))
                  ELSE yielded
    /\ nones' = IF IsSome(r.item) THEN nones ELSE nones + 1

FlatNext ==
    /\ mode = "flat"
    /\ LET r == FlatIterator_next(flat, tree)
       IN flat' = r.self /\ Logged(r)
    /\ UNCHANGED <<mode, tree, ci, vis, enc, dec, sty, call>>

ComponentNext ==
    /\ mode = "compiter"
    /\ LET r == ComponentIterator_next(ci, tree)
       IN ci' = r.self /\ Logged(r)
    /\ UNCHANGED <<mode, tree, flat, vis, enc, dec, sty, call>>

VisitNext ==
    /\ mode = "visit"
    /\ LET r == VisitingIterator_next(vis, tree)
       IN vis' = r.self /\ Logged(r)
    /\ UNCHANGED <<mode, tree, flat, ci, enc, dec, sty, call>>

NextIter ==
    \/ FlatWithTranslateArgs
    \/ FlatWithOrder
    \/ FlatNext
    \/ ComponentNext
    \/ VisitNext

SpecIter == InitIter /\ [][NextIter]_vars


---------------------------------------------------------------------------
(* Reference notions the properties of the iterators are stated with.      *)

\* The concatenation of F over the elements of a sequence of nodes.
RECURSIVE ConcatMap(_, _, _)
ConcatMap(F(_, _), t, s) ==
    IF s = <<>> THEN <<>> ELSE F(t, Head(s)) \o ConcatMap(F, t, Tail(s))

\* Pre-order over the extra children: the node, then the subtree of each
\* extra child from left to right.
RECURSIVE Preorder(_, _)
Preorder(t, i) == <<i>> \o ConcatMap(Preorder, t, Extra(t, i))

\* The nodes one level below the nodes of a level, left to right.
NextLevel(t, level) == ConcatMap(Extra, t, level)

\* Level order: the root, then each deeper level in turn.
RECURSIVE LevelsFrom(_, _)
LevelsFrom(t, level) ==
    IF level = <<>> THEN <<>> ELSE level \o LevelsFrom(t, NextLevel(t, level))

LevelOrder(t) == LevelsFrom(t, <<Root>>)

IsPrefix(s, r) == Len(s) <= Len(r) /\ \A k \in DOMAIN s : s[k] = r[k]

\* The text content of the nodes of a sequence.
Texts(t, s) == [k \in DOMAIN s |-> t[s[k]].text]

\* The nodes reached from the root through extra children only.
ExtraReachable(t) == Range(Preorder(t, Root))

\* The position of x in a sequence that holds it once.
Pos(s, x) == CHOOSE k \in DOMAIN s : s[k] = x

\* The iterator has returned None.
Exhausted == nones > 0

\* A flat iteration in depth-first order that splices no arguments in.
PlainDepthFirst ==
    \/ mode = "flat" /\ flat.order = "DepthFirst"
                     /\ ~flat.include_translate_args
    \/ mode = "compiter" /\ ci.order = "DepthFirst"

PlainBreadthFirst ==
    \/ mode = "flat" /\ flat.order = "BreadthFirst"
                     /\ ~flat.include_translate_args
    \/ mode = "compiter" /\ ci.order = "BreadthFirst"

---------------------------------------------------------------------------
(* C2: in depth-first order the flat iterator yields the nodes in          *)
(* pre-order over the extra children (a node, then the whole subtree of    *)
(* each extra child left to right, before any later sibling): what it has  *)
(* yielded is always a prefix of the pre-order and is the whole pre-order  *)
(* once it returned None; on a{b{c,d}, e{f{g,h}}} it yields                *)
(* a,b,c,d,e,f,g,h and then None.                                          *)
C2_DepthFirstPreorder ==
    PlainDepthFirst =>
        /\ IsPrefix(yielded, Preorder(tree, Root))
        /\ Exhausted => yielded = Preorder(tree, Root)
        /\ (Exhausted /\ tree = deeply_nested) =>
              Texts(tree, yielded) =
                 <<<<"a">>, <<"b">>, <<"c">>, <<"d">>,
                   <<"e">>, <<"f">>, <<"g">>, <<"h">>>>

C2_Witness ==
    /\ mode = "flat" /\ flat.order = "DepthFirst"
    /\ ~flat.include_translate_args
    /\ tree = deeply_nested
    /\ Exhausted
    /\ Len(yielded) = 8

(* C3: in breadth-first order the flat iterator yields every node of depth *)
(* N before any node of depth N+1, each level left to right: what it has   *)
(* yielded is always a prefix of the level order and is the whole level    *)
(* order once it returned None; on a{b{c,d}, e{f{g,h}}} it yields          *)
(* a,b,e,c,d,f,g,h and then None.                                          *)
C3_BreadthFirstLevels ==
    PlainBreadthFirst =>
        /\ IsPrefix(yielded, LevelOrder(tree))
        /\ Exhausted => yielded = LevelOrder(tree)
        /\ (Exhausted /\ tree = deeply_nested) =>
              Texts(tree, yielded) =
                 <<<<"a">>, <<"b">>, <<"e">>, <<"c">>,
                   <<"d">>, <<"f">>, <<"g">>, <<"h">>>>

C3_Witness ==
    /\ mode = "flat" /\ flat.order = "BreadthFirst"
    /\ ~flat.include_translate_args
    /\ tree = deeply_nested
    /\ Exhausted
    /\ Len(yielded) = 8

(* C4: with with_translate_args(), in either order, a Translation node's   *)
(* arguments are yielded after the node and before every extra child of    *)
(* the node.                                                               *)
C4_ArgsBeforeExtra ==
    (mode = "flat" /\ flat.include_translate_args /\ Exhausted) =>
        \A n \in Range(yielded) :
            \A a \in Range(With(tree, n)) :
                /\ a \in Range(yielded)
                /\ Pos(yielded, n) < Pos(yielded, a)
                /\ \A e \in Range(Extra(tree, n)) :
                       Pos(yielded, a) < Pos(yielded, e)

\* The breadth-first half of C4, which the code does satisfy.
C4_BreadthFirstCase ==
    /\ mode = "flat" /\ flat.include_translate_args /\ Exhausted
    /\ flat.order = "BreadthFirst"
    /\ \E n \in Range(yielded) :
          With(tree, n) # <<>> /\ Extra(tree, n) # <<>>

(* C5: a flat iterator without with_translate_args(), and the visiting    *)
(* iterator, only yield the root and nodes reached through extra children: *)
(* never a node that is reachable only through a `with` vector.            *)
C5_ArgsExcludedByDefault ==
    /\ (mode = "flat" /\ ~flat.include_translate_args) =>
           Range(yielded) \subseteq ExtraReachable(tree)
    /\ mode = "compiter" => Range(yielded) \subseteq ExtraReachable(tree)
    /\ mode = "visit" =>
           {v[2] : v \in Range(yielded)} \subseteq ExtraReachable(tree)

C5_Witness ==
    /\ mode = "flat" /\ ~flat.include_translate_args
    /\ Exhausted
    /\ \E j \in DOMAIN tree : tree[j].link = "with"
    /\ Len(yielded) >= 2


\* What a structure-preserving walk of the subtree of node i is to emit:
\* Push(i), the walks of the extra children left to right, Pop(i).
RECURSIVE VisitWalk(_, _)
VisitWalk(t, i) ==
    <<Push(i)>> \o ConcatMap(VisitWalk, t, Extra(t, i)) \o <<Pop(i)>>

\* The positions of an event in the log.
Positions(s, v) == {k \in DOMAIN s : s[k] = v}

\* The proper descendants of node i through extra children.
Descendants(t, i) == Range(Preorder(t, i)) \ {i}

(* C6: the visiting iterator emits Push(n) when n is first reached, then   *)
(* the Push/Pop sequences of n's extra children left to right, then        *)
(* Pop(n): the events so far are a prefix of that walk and, once the       *)
(* iterator returned None, every node has exactly one Push and one Pop,    *)
(* its Push before its Pop, and the events of its descendants lie strictly *)
(* between the two.                                                        *)
C6_VisitProperlyNested ==
    mode = "visit" =>
        /\ IsPrefix(yielded, VisitWalk(tree, Root))
        /\ Exhausted =>
              /\ yielded = VisitWalk(tree, Root)
              /\ \A n \in ExtraReachable(tree) :
                    /\ Cardinality(Positions(yielded, Push(n))) = 1
                    /\ Cardinality(Positions(yielded, Pop(n))) = 1
                    /\ Pos(yielded, Push(n)) < Pos(yielded, Pop(n))
                    /\ \A d \in Descendants(tree, n) :
                          /\ Pos(yielded, Push(n)) < Pos(yielded, Push(d))
                          /\ Pos(yielded, Pop(d)) < Pos(yielded, Pop(n))

C6_Witness ==
    /\ mode = "visit"
    /\ Exhausted
    /\ \E n \in ExtraReachable(tree) :
          n # Root /\ Len(Extra(tree, n)) >= 2

\* The nodes a flat iterator is to cover: those reached through extra
\* children and, once arguments are included, through `with` vectors too.
RECURSIVE Covered(_, _, _)
Covered(t, i, args) ==
    {i} \cup UNION {Covered(t, j, args) :
                      j \in Range(Extra(t, i)) \cup
                            (IF args THEN Range(With(t, i)) ELSE {})}

NoRepeats(s) == \A j, k \in DOMAIN s : s[j] = s[k] => j = k

(* C7: in either order the flat iterator never yields a node twice, has    *)
(* yielded every node of the tree when it returns None, and from then on   *)
(* next() returns None again.                                              *)
C7_EveryNodeOnce ==
    /\ mode = "flat" =>
          /\ NoRepeats(yielded)
          /\ Exhausted =>
                /\ Range(yielded) =
                      Covered(tree, Root, flat.include_translate_args)
                /\ FlatIterator_next(flat, tree).item = None
                /\ FlatIterator_next(flat, tree).self = flat
    /\ mode = "compiter" =>
          /\ NoRepeats(yielded)
          /\ Exhausted =>
                /\ Range(yielded) = Covered(tree, Root, FALSE)
                /\ ComponentIterator_next(ci, tree).item = None
                /\ ComponentIterator_next(ci, tree).self = ci

C7_Witness ==
    /\ mode = "flat"
    /\ flat.order = "BreadthFirst"
    /\ nones = MaxNoneCalls
    /\ Len(yielded) = MaxNodes

\* How many more items an iterator yields before it returns None.
RECURSIVE FlatRemaining(_, _)
FlatRemaining(self, t) ==
    LET r == FlatIterator_next(self, t)
    IN IF IsSome(r.item) THEN 1 + FlatRemaining(r.self, t) ELSE 0

RECURSIVE VisitRemaining(_, _)
VisitRemaining(self, t) ==
    LET r == VisitingIterator_next(self, t)
    IN IF IsSome(r.item) THEN 1 + VisitRemaining(r.self, t) ELSE 0

(* C8: at every point of a flat and of a visiting traversal the lower      *)
(* bound of size_hint() is at most the number of items still to come.      *)
C8_SizeHintLowerBound ==
    /\ mode = "flat" =>
          FlatIterator_size_hint(flat) <= FlatRemaining(flat, tree)
    /\ mode = "visit" =>
          VisitingIterator_size_hint(vis) <= VisitRemaining(vis, tree)

\* The part of C8 that the code does satisfy: before the first next().
C8_AtCreation ==
    NotStarted =>
        /\ mode = "flat" =>
              FlatIterator_size_hint(flat) <= FlatRemaining(flat, tree)
        /\ mode = "visit" =>
              VisitingIterator_size_hint(vis) <= VisitRemaining(vis, tree)


---------------------------------------------------------------------------
(* Style (src/style.rs): ten Option fields, generated by style_fields!.    *)

\* The fields in the order of the macro invocation.
StyleFields ==
    <<"bold", "italic", "underlined", "strikethrough", "obfuscated",
      "font", "color", "insertion", "click_event", "hover_event">>

FlagFields ==
    <<"bold", "italic", "underlined", "strikethrough", "obfuscated">>

\* Mutant: the field is overwritten even where src leaves it unset.
MergeField_overwrite(self, src, f) == [self EXCEPT ![f] = src[f]]

\* One repetition of the body of merge for field f:
\* if let Some(v) = &src.f { self.f = Some(v.clone()) }
MergeField(self, src, f) ==
    IF IsSome(src[f]) THEN [self EXCEPT ![f] = Some(Unwrap(src[f]))]
    ELSE self

\* Style::merge(&mut self, src: &Self): the repetitions in field order; the
\* value is self afterwards (src is a shared reference and is not written).
RECURSIVE MergeFrom(_, _, _)
MergeFrom(self, src, fields) ==
    IF fields = <<>> THEN self
    ELSE MergeFrom(MergeField(self, src, Head(fields)), src, Tail(fields))

Style_merge(self, src) == MergeFrom(self, src, StyleFields)

\* Mutant: only the five flags are tested.
is_blank_flagsOnly(self) ==
    \A k \in DOMAIN FlagFields : self[FlagFields[k]] = None

\* Style::is_blank
is_blank(self) == \A k \in DOMAIN StyleFields : self[StyleFields[k]] = None

\* Style::clear: mem::swap(self, &mut Default::default()); the value is
\* self afterwards, the default style, which is Style::BLANK.
Style_clear(self) == BLANK

---------------------------------------------------------------------------
(* Style as a state machine: a style is built, then merge may be called on *)
(* it with another style, clear may be called on it, and is_blank may be   *)
(* called on what it then holds.                                           *)

\* Most fields that the merged-into style sets, and that the argument sets.
MaxSetSelf == 2

MaxSetSrc == 1

\* The values a field takes in the enumerated styles (two of each type; a
\* bool is written "true" or "false").
FieldValues(f) ==
    CASE f \in Range(FlagFields) -> {"true", "false"}
      [] f = "font" -> {"minecraft:default", "minecraft:alt"}
      [] f = "color" -> {Named("Green"), Hex(U32(11189196))}
      [] f = "insertion" -> {"ins1", "ins2"}
      [] f = "click_event" -> {"run_command", "copy_to_clipboard"}
      [] f = "hover_event" -> {"show_text", "show_item"}

\* The styles that set at most k of the given fields and no other field.
RECURSIVE StylesOver(_, _)
StylesOver(fields, k) ==
    IF fields = <<>> \/ k = 0 THEN {BLANK}
    ELSE StylesOver(Tail(fields), k) \cup
         {[s EXCEPT ![Head(fields)] = Some(v)] :
            <<s, v>> \in StylesOver(Tail(fields), k - 1) \X
                         FieldValues(Head(fields))}

\* The styles that set at most k fields.
StylesUpTo(k) == StylesOver(StyleFields, k)

InitStyle ==
    /\ mode = "style"
    /\ sty \in {[pc |-> "built", self |-> a, old |-> a, src |-> BLANK] :
                  a \in StylesUpTo(MaxSetSelf)}
    /\ tree = Idle /\ flat = Idle /\ ci = Idle /\ vis = Idle
    /\ yielded = <<>> /\ nones = 0
    /\ enc = Idle /\ dec = Idle /\ call = Idle

\* self.merge(&src)
Merge ==
    /\ mode = "style"
    /\ sty.pc = "built"
    /\ \E b \in StylesUpTo(MaxSetSrc) :
          sty' = [pc |-> "merged", old |-> sty.self, src |-> b,
                  self |-> Style_merge(sty.self, b)]
    /\ UNCHANGED <<mode, tree, flat, ci, vis, yielded, nones, enc, dec, call>>

\* self.clear()
Clear ==
    /\ mode = "style"
    /\ sty.pc \in {"built", "merged"}
    /\ sty' = [pc |-> "cleared", old |-> sty.self, src |-> sty.src,
               self |-> Style_clear(sty.self)]
    /\ UNCHANGED <<mode, tree, flat, ci, vis, yielded, nones, enc, dec, call>>

\* self.is_blank(), with the state it was called in
IsBlank ==
    /\ mode = "style"
    /\ sty.pc \in {"built", "merged", "cleared"}
    /\ sty' = [pc |-> "checked", old |-> sty.old, src |-> sty.src,
               self |-> sty.self, was |-> sty.pc,
               blank |-> is_blank(sty.self)]
    /\ UNCHANGED <<mode, tree, flat, ci, vis, yielded, nones, enc, dec, call>>

NextStyle ==
    \/ Merge
    \/ Clear
    \/ IsBlank

SpecStyle == InitStyle /\ [][NextStyle]_vars

(* C1: a.merge(b) leaves every field of a equal to b's value where b sets  *)
(* the field and equal to a's previous value where b leaves it unset.      *)
C1_MergeFieldwise ==
    (mode = "style" /\ sty.pc = "merged") =>
        \A f \in Range(StyleFields) :
            /\ IsSome(sty.src[f]) => sty.self[f] = sty.src[f]
            /\ sty.src[f] = None => sty.self[f] = sty.old[f]

\* b overrides a field that a had set to another value, and a keeps a field
\* that b leaves unset.
C1_Witness ==
    /\ mode = "style" /\ sty.pc = "merged"
    /\ \E f \in Range(StyleFields) :
          /\ IsSome(sty.src[f]) /\ IsSome(sty.old[f])
          /\ sty.src[f] # sty.old[f]
    /\ \E g \in Range(StyleFields) :
          sty.src[g] = None /\ IsSome(sty.old[g]) /\ sty.self[g] = sty.old[g]


---------------------------------------------------------------------------
(* LegacyCodec (src/codec/legacy.rs) and the color codes (src/style.rs).   *)
(* A string is a sequence of characters, each written as a string.         *)

\* The control character of LegacyCodec::SECTION.
S == "§"

\* The character '\0'.
NUL == "\\0"

BOLD == "l"

ITALIC == "o"

UNDERLINED == "n"

STRIKETHROUGH == "m"

OBFUSCATED == "k"

RESET == "r"

\* The named colors with their codes, in the order of the enum.
ColorCodes ==
    <<<<"Black", "0">>, <<"DarkBlue", "1">>, <<"DarkGreen", "2">>,
      <<"DarkAqua", "3">>, <<"DarkRed", "4">>, <<"DarkPurple", "5">>,
      <<"Gold", "6">>, <<"Gray", "7">>, <<"DarkGray", "8">>,
      <<"Blue", "9">>, <<"Green", "a">>, <<"Aqua", "b">>, <<"Red", "c">>,
      <<"LightPurple", "d">>, <<"Yellow", "e">>, <<"White", "f">>>>

\* TextColor::color_code
color_code(color) ==
    IF color.name = "Hex" THEN NUL
    ELSE (CHOOSE p \in Range(ColorCodes) : p[1] = color.name)[2]

\* Mutant: the uppercase letters A to F are color codes as well.
from_color_code_anycase(code) ==
    LET lower == IF code = "A" THEN "a" ELSE IF code = "B" THEN "b"
                 ELSE IF code = "C" THEN "c" ELSE IF code = "D" THEN "d"
                 ELSE IF code = "E" THEN "e" ELSE IF code = "F" THEN "f"
                 ELSE code
    IN IF \E p \in Range(ColorCodes) : p[2] = lower
       THEN Some(Named((CHOOSE p \in Range(ColorCodes) : p[2] = lower)[1]))
       ELSE None

\* TextColor::from_color_code
from_color_code(code) ==
    IF \E p \in Range(ColorCodes) : p[2] = code
    THEN Some(Named((CHOOSE p \in Range(ColorCodes) : p[2] = code)[1]))
    ELSE None

\* const RESETTING
RESETTING ==
    [BLANK EXCEPT !.bold = Some("false"), !.italic = Some("false"),
                  !.underlined = Some("false"),
                  !.strikethrough = Some("false"),
                  !.obfuscated = Some("false"),
                  !.color = Some(Named("White"))]

\* The flags apply_format_styles tests, with their codes, in its order.
FormatCodes ==
    <<<<"bold", BOLD>>, <<"italic", ITALIC>>, <<"underlined", UNDERLINED>>,
      <<"strikethrough", STRIKETHROUGH>>, <<"obfuscated", OBFUSCATED>>>>

\* The statements of apply_format_styles for the given flags, in turn:
\* if let Some(true) = style.flag { target.extend([S, CODE]) }
RECURSIVE ApplyFormats(_, _, _)
ApplyFormats(target, style, codes) ==
    IF codes = <<>> THEN target
    ELSE ApplyFormats(
            IF style[Head(codes)[1]] = Some("true")
            THEN target \o <<S, Head(codes)[2]>> ELSE target,
            style, Tail(codes))

\* Mutant: the flags are tested in the opposite order.
apply_format_styles_reversed(target, style) ==
    ApplyFormats(target, style, Rev(FormatCodes))

apply_format_styles(target, style) == ApplyFormats(target, style, FormatCodes)

\* for style in &styles { active_style.merge(style) }
RECURSIVE MergeAll(_, _)
MergeAll(active_style, styles) ==
    IF styles = <<>> THEN active_style
    ELSE MergeAll(Style_merge(active_style, Head(styles)), Tail(styles))

\* Mutant: the inherited formatting is not reapplied after a color code.
ToApply_ownOnly(own, active_style) == own

\* to_apply of the Push arm: the node's own style, merged with the active
\* style when the node sets a color.
ToApply(own, active_style) ==
    IF IsSome(own.color) THEN Style_merge(own, active_style) ELSE own

\* The Push arm of serialize for node: the locals afterwards.  log keeps,
\* for every Push, the node, what was appended to out and the active style.
SerializePushArm(e, t, node) ==
    LET own          == t[node].style
        styles       == Append(e.styles, own)
        active_style == MergeAll(BLANK, styles)
        out1         == IF IsSome(own.color)
                        THEN e.out \o <<S, color_code(Unwrap(own.color))>>
                        ELSE e.out
        out2         == apply_format_styles(out1, ToApply(own, active_style))
        content      == shallow_text(t, node)
        out3         == IF IsSome(content) THEN out2 \o Unwrap(content)
                        ELSE out2
    IN [e EXCEPT !.styles = styles,
                 !.out = out3,
                 !.log = Append(e.log,
                            [node |-> node,
                             chunk |-> SubSeq(out3, Len(e.out) + 1, Len(out3)),
                             active_style |-> active_style,
                             styles |-> styles])]

\* Mutant: the Pop arm leaves the stack as it is.
SerializePopArm_keep(e) == e

\* The Pop arm: styles.pop_back()
SerializePopArm(e) ==
    [e EXCEPT !.styles = IF e.styles = <<>> THEN <<>>
                         ELSE SubSeq(e.styles, 1, Len(e.styles) - 1)]


---------------------------------------------------------------------------
(* Components as values (what a decoder builds and flattened() consumes):  *)
(* a record of content, style and the vector of extra children.            *)

Text(text) == [kind |-> "Text", text |-> text]

Empty == [kind |-> "Empty"]

\* Component::create
Component(content, style, extra) ==
    [content |-> content, style |-> style, extra |-> extra]

\* Component::create_flat
create_flat(content, style) == Component(content, style, <<>>)

\* Vec::swap_remove(0) on a non-empty vector: the vector afterwards (the
\* last element takes the place of the removed one).
swap_remove_0(v) ==
    IF Len(v) = 1 THEN <<>>
    ELSE <<v[Len(v)]>> \o SubSeq(v, 2, Len(v) - 1)

\* Mutant: the styles are merged the other way round, the root's set fields
\* overriding the child's.
flattened_rootWins(self) ==
    IF self.content # Empty THEN self
    ELSE IF self.extra = <<>> THEN self
    ELSE LET first == self.extra[1]
             rest  == swap_remove_0(self.extra)
         IN Component(first.content,
                      Style_merge(first.style, self.style),
                      rest \o first.extra)

\* Component::flattened
flattened(self) ==
    IF self.content # Empty THEN self
    ELSE IF self.extra = <<>> THEN self
    ELSE LET first == self.extra[1]
             rest  == swap_remove_0(self.extra)
         IN Component(first.content,
                      Style_merge(self.style, first.style),
                      rest \o first.extra)

\* str::split(S): the segments between the occurrences of the control
\* character, empty segments included.
RECURSIVE SplitFrom(_, _)
SplitFrom(value, segment) ==
    IF value = <<>> THEN <<segment>>
    ELSE IF Head(value) = S
         THEN <<segment>> \o SplitFrom(Tail(value), <<>>)
         ELSE SplitFrom(Tail(value), Append(segment, Head(value)))

split(value) == SplitFrom(value, <<>>)

\* Mutant: a format code resets the other flags and the color as well.
FormatStyle_resetting(code) ==
    CASE code = BOLD -> Some([RESETTING EXCEPT !.bold = Some("true")])
      [] code = ITALIC -> Some([RESETTING EXCEPT !.italic = Some("true")])
      [] code = UNDERLINED ->
            Some([RESETTING EXCEPT !.underlined = Some("true")])
      [] code = STRIKETHROUGH ->
            Some([RESETTING EXCEPT !.strikethrough = Some("true")])
      [] code = OBFUSCATED ->
            Some([RESETTING EXCEPT !.obfuscated = Some("true")])
      [] code = RESET -> Some(RESETTING)
      [] OTHER -> None

\* The style of a format or reset code, None for any other character.
FormatStyle(code) ==
    CASE code = BOLD -> Some([BLANK EXCEPT !.bold = Some("true")])
      [] code = ITALIC -> Some([BLANK EXCEPT !.italic = Some("true")])
      [] code = UNDERLINED -> Some([BLANK EXCEPT !.underlined = Some("true")])
      [] code = STRIKETHROUGH ->
            Some([BLANK EXCEPT !.strikethrough = Some("true")])
      [] code = OBFUSCATED -> Some([BLANK EXCEPT !.obfuscated = Some("true")])
      [] code = RESET -> Some(RESETTING)
      [] OTHER -> None

\* Mutant: a color code sets the color and leaves the flags unset.
SegmentStyle_colorOnly(segment) ==
    IF segment = <<>> THEN None
    ELSE LET code == Head(segment)
         IN IF IsSome(from_color_code(code))
            THEN Some(<<[BLANK EXCEPT !.color = from_color_code(code)],
                        Tail(segment)>>)
            ELSE IF IsSome(FormatStyle(code))
            THEN Some(<<Unwrap(FormatStyle(code)), Tail(segment)>>)
            ELSE Some(<<BLANK, segment>>)

\* The filter_map closure of deserialize: None for an empty segment, else
\* Some of the pair of the style and the remaining text.
SegmentStyle(segment) ==
    IF segment = <<>> THEN None
    ELSE LET code == Head(segment)
         IN IF IsSome(from_color_code(code))
            THEN Some(<<[RESETTING EXCEPT !.color = from_color_code(code)],
                        Tail(segment)>>)
            ELSE IF IsSome(FormatStyle(code))
            THEN Some(<<Unwrap(FormatStyle(code)), Tail(segment)>>)
            ELSE Some(<<BLANK, segment>>)

\* The number of bytes of a character in UTF-8 (the section sign and the
\* accented letter take two, the other characters used here are ASCII).
Utf8Len(c) == IF c \in {S, "é"} THEN 2 ELSE 1

\* &segment[1..] on a non-empty segment panics unless byte index 1 is a
\* character boundary, that is unless the first character is one byte long.
SlicePanics(segment) == Utf8Len(Head(segment)) # 1

\* Mutant: the arm of an unrecognised code slices the segment as well.
SegmentPanics_everyArm(segment) ==
    segment # <<>> /\ SlicePanics(segment)

\* The filter_map closure panics: the segment is kept by the color arm or a
\* format arm, which slice it, and the slice panics.
SegmentPanics(segment) ==
    /\ segment # <<>>
    /\ \/ IsSome(from_color_code(Head(segment)))
       \/ IsSome(FormatStyle(Head(segment)))
    /\ SlicePanics(segment)

\* The outcome of a call that panicked.
Panic == [panic |-> TRUE]

\* The map closure of deserialize.
SegmentComponent(pair) ==
    create_flat(IF pair[2] = <<>> THEN Empty ELSE Text(pair[2]), pair[1])

\* The components of the segments that filter_map keeps, in order.
RECURSIVE SegmentComponents(_)
SegmentComponents(segments) ==
    IF segments = <<>> THEN <<>>
    ELSE LET kept == SegmentStyle(Head(segments))
         IN (IF IsSome(kept) THEN <<SegmentComponent(Unwrap(kept))>>
             ELSE <<>>) \o SegmentComponents(Tail(segments))

\* Component::empty().with_extra(extra).flattened()
Assemble(extra) == flattened(Component(Empty, BLANK, extra))

\* LegacyCodec::deserialize
LegacyCodec_deserialize(value) ==
    LET segments == split(<<S, RESET>> \o value)
    IN IF \E k \in DOMAIN segments : SegmentPanics(segments[k])
       THEN Panic
       ELSE Assemble(SegmentComponents(segments))


---------------------------------------------------------------------------
(* The legacy codec as a state machine: serialize runs its loop over       *)
(* component.visit() one event at a time; deserialize is one step.         *)

\* Largest number of nodes of a tree given to serialize.
MaxEncNodes == 3

\* Longest enumerated input of deserialize (the examples are longer).
MaxInputLen == 3

Flags(F) == [f \in DOMAIN BLANK |-> IF f \in F THEN Some("true") ELSE BLANK[f]]

\* The styles of the nodes given to serialize.
EncStyles ==
    {BLANK,
     Flags({"bold"}),
     [BLANK EXCEPT !.bold = Some("false")],
     Flags({"italic", "underlined"}),
     Flags({"strikethrough", "obfuscated"}),
     [Flags({"bold"}) EXCEPT !.color = Some(Named("Green"))],
     [BLANK EXCEPT !.color = Some(Named("Blue"))],
     [BLANK EXCEPT !.color = Some(Named("Red")), !.bold = Some("false")],
     [BLANK EXCEPT !.color = Some(Hex(U32(11189196)))]}

\* The text of the i-th node of an enumerated tree.
NodeText(i) == <<"t", <<"0", "1", "2", "3", "4", "5", "6", "7">>[i]>>

\* The tree of Text nodes with parents p and styles st, every node an extra
\* child.
StyledTree(p, st) ==
    [i \in DOMAIN p |->
        Node(p[i], IF i = 1 THEN "root" ELSE "extra", "Text", NodeText(i),
             st[i])]

\* The component of the test encode_color_codes:
\* text("hello ").bold(true).color(Green).extra([text("world").color(Blue)])
hello_world ==
    <<Node(0, "root", "Text", <<"h", "e", "l", "l", "o", " ">>,
           [Flags({"bold"}) EXCEPT !.color = Some(Named("Green"))]),
      Node(1, "extra", "Text", <<"w", "o", "r", "l", "d">>,
           [BLANK EXCEPT !.color = Some(Named("Blue"))])>>

\* The characters of the enumerated inputs of deserialize.
InputChars == {S, "l", "a", "r", "x"}

\* Every string of the given length over InputChars.
RECURSIVE Strings(_)
Strings(n) ==
    IF n = 0 THEN {<<>>}
    ELSE {Append(w, c) : <<w, c>> \in Strings(n - 1) \X InputChars}

\* The characters tried as the code after a control character.
CodeChars ==
    {"0", "1", "2", "3", "4", "5", "6", "7", "8", "9",
     "a", "b", "c", "d", "e", "f", "l", "o", "n", "m", "k", "r",
     "g", "A", "L", "R", "é", " ", NUL}

\* The inputs of deserialize: the short strings, one code followed by text,
\* the documented example, and strings of several pieces of text.
DecInputs ==
    UNION {Strings(n) : n \in 0 .. MaxInputLen}
    \cup {<<S, c>> \o w : <<c, w>> \in CodeChars \X {<<>>, <<"h", "i">>}}
    \cup {<<S, "l", "h", "e", "l", "l", "o">>}
    \cup {<<S, "x", S, "y">>,
          <<"x", S, "l", "b", S, "o", "c">>,
          <<S, "l", "b", S, "c", S, "o", "d", S, "z">>}

\* Component::text(s) as a tree.
TextTree(s) == <<Node(0, "root", "Text", s, BLANK)>>

\* The strings given to Component::text before a round trip: the short
\* strings without the control character, and "hello world".
RoundTripTexts ==
    {w \in UNION {Strings(n) : n \in 0 .. MaxInputLen} : S \notin Range(w)}
    \cup {<<"h", "e", "l", "l", "o", " ", "w", "o", "r", "l", "d">>}

InitLegacy ==
    /\ mode \in {"encode", "decode"}
    /\ \/ mode = "decode" /\ tree = Idle
       \/ mode = "encode" /\ tree = hello_world
       \/ mode = "encode" /\ tree \in {TextTree(w) : w \in RoundTripTexts}
       \/ /\ mode = "encode"
          /\ \E n \in 1 .. MaxEncNodes : \E p \in Shapes(n) :
               \E st \in [1 .. n -> EncStyles] : tree = StyledTree(p, st)
    /\ vis = IF mode = "encode" THEN VisitingIterator_new(tree, Root)
             ELSE Idle
    /\ enc = IF mode = "encode"
             THEN [pc |-> "loop", styles |-> <<>>, out |-> <<>>,
                   log |-> <<>>]
             ELSE Idle
    /\ dec \in IF mode = "decode"
               THEN {[pc |-> "called", value |-> v] : v \in DecInputs}
               ELSE {Idle}
    /\ flat = Idle /\ ci = Idle /\ sty = Idle /\ call = Idle
    /\ yielded = <<>> /\ nones = 0

\* One turn of `for op in component.visit()` with op = Visit::Push(node).
SerializePush ==
    /\ mode = "encode" /\ enc.pc = "loop"
    /\ LET r == VisitingIterator_next(vis, tree)
       IN /\ IsSome(r.item) /\ Unwrap(r.item)[1] = "Push"
          /\ vis' = r.self
          /\ Logged(r)
          /\ enc' = SerializePushArm(enc, tree, Unwrap(r.item)[2])
    /\ UNCHANGED <<mode, tree, flat, ci, dec, sty, call>>

\* One turn of the loop with op = Visit::Pop(_).
SerializePop ==
    /\ mode = "encode" /\ enc.pc = "loop"
    /\ LET r == VisitingIterator_next(vis, tree)
       IN /\ IsSome(r.item) /\ Unwrap(r.item)[1] = "Pop"
          /\ vis' = r.self
          /\ Logged(r)
          /\ enc' = SerializePopArm(enc)
    /\ UNCHANGED <<mode, tree, flat, ci, dec, sty, call>>

\* The iterator is exhausted: the loop ends and serialize returns out.
SerializeReturn ==
    /\ mode = "encode" /\ enc.pc = "loop"
    /\ LET r == VisitingIterator_next(vis, tree)
       IN /\ r.item = None
          /\ vis' = r.self
          /\ Logged(r)
          /\ enc' = [enc EXCEPT !.pc = "returned"]
    /\ UNCHANGED <<mode, tree, flat, ci, dec, sty, call>>

\* codec.deserialize(value)
Deserialize ==
    /\ mode = "decode" /\ dec.pc = "called"
    /\ dec' = [pc |-> "returned", value |-> dec.value,
               result |-> LegacyCodec_deserialize(dec.value)]
    /\ UNCHANGED <<mode, tree, flat, ci, vis, yielded, nones, enc, sty, call>>

\* codec.deserialize(codec.serialize(&component)): deserialize is called on
\* the string serialize returned.
DeserializeEncoded ==
    /\ mode = "encode" /\ enc.pc = "returned" /\ dec = Idle
    /\ dec' = [pc |-> "returned", value |-> enc.out,
               result |-> LegacyCodec_deserialize(enc.out)]
    /\ UNCHANGED <<mode, tree, flat, ci, vis, yielded, nones, enc, sty, call>>

NextLegacy ==
    \/ SerializePush
    \/ SerializePop
    \/ SerializeReturn
    \/ Deserialize
    \/ DeserializeEncoded

SpecLegacy == InitLegacy /\ [][NextLegacy]_vars


---------------------------------------------------------------------------
(* Reference notions for the legacy codec.                                 *)

\* The value of field f in the effective style of node i: that of the
\* nearest node, from i up to the root, whose own style sets f.
RECURSIVE Effective(_, _, _)
Effective(t, i, f) ==
    IF IsSome(t[i].style[f]) THEN t[i].style[f]
    ELSE IF t[i].parent = 0 THEN None
    ELSE Effective(t, t[i].parent, f)

\* The codes of the flags that are true in the effective style of node i.
TrueFlagCodes(t, i) ==
    {FormatCodes[k][2] : k \in {j \in DOMAIN FormatCodes :
        Effective(t, i, FormatCodes[j][1]) = Some("true")}}

\* A string that is one two-character sequence, control character then
\* code, for each code of the set, each code once, in some order.
IsCodeRun(run, codes) ==
    /\ Len(run) = 2 * Cardinality(codes)
    /\ \A k \in DOMAIN run : k % 2 = 1 => run[k] = S
    /\ {run[k] : k \in {j \in DOMAIN run : j % 2 = 0}} = codes

\* The code the format tables of the codec give a named color.
CodeOfNamed(name) == (CHOOSE p \in Range(ColorCodes) : p[1] = name)[2]

(* C9: in serialize, for a node whose own style sets a named color, the    *)
(* output of that node is the control character and the color's code, then *)
(* one format code for every flag that is true in the node's effective     *)
(* style, then the node's text; the hello/world example encodes to         *)
(* "§a§lhello §9§lworld".                                                  *)
C9_ColorReappliesFormats ==
    mode = "encode" =>
        /\ \A k \in DOMAIN enc.log :
              LET n     == enc.log[k].node
                  own   == tree[n].style
                  chunk == enc.log[k].chunk
                  text  == tree[n].text
                  run   == SubSeq(chunk, 3, Len(chunk) - Len(text))
              IN (IsSome(own.color) /\ Unwrap(own.color).name # "Hex") =>
                    /\ Len(chunk) >= 2 + Len(text)
                    /\ SubSeq(chunk, 1, 2) =
                          <<S, CodeOfNamed(Unwrap(own.color).name)>>
                    /\ IsCodeRun(run, TrueFlagCodes(tree, n))
                    /\ SubSeq(chunk, Len(chunk) - Len(text) + 1, Len(chunk))
                          = text
        /\ (tree = hello_world /\ enc.pc = "returned") =>
              enc.out = <<S, "a", S, "l", "h", "e", "l", "l", "o", " ",
                          S, "9", S, "l", "w", "o", "r", "l", "d">>

\* A colored node below an ancestor whose flags it inherits has been
\* written.
C9_Witness ==
    /\ mode = "encode"
    /\ \E k \in DOMAIN enc.log :
          LET n == enc.log[k].node
          IN /\ IsSome(tree[n].style.color)
             /\ Unwrap(tree[n].style.color).name # "Hex"
             /\ tree[n].parent # 0
             /\ \E f \in Range(FlagFields) :
                   /\ tree[n].style[f] = None
                   /\ Effective(tree, n, f) = Some("true")

\* The inputs C10 is about: one format code and a non-empty text that holds
\* no control character.
OneFormatCodeInput(value) ==
    /\ Len(value) >= 3
    /\ value[1] = S
    /\ value[2] \in {BOLD, ITALIC, UNDERLINED, STRIKETHROUGH, OBFUSCATED}
    /\ \A k \in 3 .. Len(value) : value[k] # S

\* The flag field that a format code stands for.
FlagOfCode(code) ==
    (CHOOSE p \in Range(FormatCodes) : p[2] = code)[1]

(* C10: deserialize of one format code followed by non-empty text, such as *)
(* "§lhello", returns a single component with that Text content, the flag  *)
(* of the code true and no children, not an Empty root wrapping a child.   *)
C10_SingleRunFlattened ==
    (mode = "decode" /\ dec.pc = "returned"
        /\ OneFormatCodeInput(dec.value)) =>
        /\ dec.result.content = Text(SubSeq(dec.value, 3, Len(dec.value)))
        /\ dec.result.style[FlagOfCode(dec.value[2])] = Some("true")
        /\ dec.result.extra = <<>>

\* What the code returns for such an input: an Empty root that carries the
\* style of the synthetic reset code and wraps the one text component.
C10_WrappedInResetRoot ==
    (mode = "decode" /\ dec.pc = "returned"
        /\ OneFormatCodeInput(dec.value)) =>
        /\ dec.result.content = Empty
        /\ dec.result.style = RESETTING
        /\ Len(dec.result.extra) = 1
        /\ dec.result.extra[1].content =
              Text(SubSeq(dec.value, 3, Len(dec.value)))
        /\ dec.result.extra[1].style[FlagOfCode(dec.value[2])] = Some("true")



\* The tree is Component::text(s) for a string s without the control
\* character, and deserialize has returned for what serialize gave.
PlainTextRoundTrip ==
    /\ mode = "encode"
    /\ Len(tree) = 1
    /\ tree[Root].kind = "Text"
    /\ tree[Root].style = BLANK
    /\ S \notin Range(tree[Root].text)
    /\ dec # Idle
    /\ dec.pc = "returned"

(* C11: for every string s without the control character,                  *)
(* deserialize(serialize(Component::text(s))) equals Component::text(s):   *)
(* Text(s) content, blank style and no children.                           *)
C11_TextRoundTrip ==
    PlainTextRoundTrip =>
        dec.result = Component(Text(tree[Root].text), BLANK, <<>>)

\* What the code returns instead: the style of the reset code that
\* deserialize prepends, on Text(s), or on Empty content when s is empty.
C11_RoundTripGivesResetting ==
    PlainTextRoundTrip =>
        /\ dec.value = tree[Root].text
        /\ dec.result =
              Component(IF tree[Root].text = <<>> THEN Empty
                        ELSE Text(tree[Root].text),
                        RESETTING, <<>>)

\* A value is a component: content, style over the ten fields, and extra
\* children that are components.
RECURSIVE IsComponent(_)
IsComponent(v) ==
    /\ DOMAIN v = {"content", "style", "extra"}
    /\ v.content.kind \in {"Text", "Empty"}
    /\ DOMAIN v.style = Range(StyleFields)
    /\ \A k \in DOMAIN v.extra : IsComponent(v.extra[k])

(* C12: deserialize returns a component for every input string (the empty  *)
(* string, a trailing control character, consecutive control characters,   *)
(* a control character followed by an unrecognised or non-ASCII            *)
(* character); it never panics and has no error outcome.                   *)
C12_DeserializeTotal ==
    (mode = "decode" /\ dec.pc = "returned") =>
        /\ dec.result # Panic
        /\ IsComponent(dec.result)

\* deserialize has returned for a control character followed by a two-byte
\* character and text: the segment is kept whole as literal text.
C12_Witness ==
    /\ mode = "decode" /\ dec.pc = "returned"
    /\ dec.value = <<S, "é", "h", "i">>
    /\ IsComponent(dec.result)
    /\ dec.result.extra = <<create_flat(Text(<<"é", "h", "i">>), BLANK)>>

---------------------------------------------------------------------------
(* The plain text codecs: PlainTextCodec (src/codec/plain.rs) and          *)
(* PlainTextComponentCodec (src/codec.rs), with Display for Content        *)
(* (src/content.rs).  Both loops run `for node in component`, that is the  *)
(* FlatIterator of component.iter().  A node's text field holds the key of *)
(* a Keybind or Translation and the value of a Score.                      *)

\* impl Display for Content: what write! appends for the content of node i.
RECURSIVE Content_fmt(_, _)
RECURSIVE ColonArg(_, _)
Content_fmt(t, i) ==
    CASE t[i].kind = "Text" -> t[i].text
      [] t[i].kind = "Keybind" -> <<"[">> \o t[i].text \o <<"]">>
      [] t[i].kind = "Score" -> t[i].text
      [] t[i].kind = "Translation" ->
            <<"<">> \o t[i].text \o ConcatMap(ColonArg, t, With(t, i))
                   \o <<">">>
      [] t[i].kind = "Empty" -> <<>>

\* write!(f, ":{}", arg.content)
ColonArg(t, a) == <<":">> \o Content_fmt(t, a)

\* The body of the loop of PlainTextCodec::serialize:
\* if let Some(content) = node.shallow_text() { out += content }
PlainTextCodec_append(out, t, node) ==
    IF IsSome(shallow_text(t, node)) THEN out \o Unwrap(shallow_text(t, node))
    ELSE out

\* The body of the loop of PlainTextComponentCodec::serialize:
\* output += &node.body.to_string()
PlainTextComponentCodec_append(output, t, node) ==
    output \o Content_fmt(t, node)

\* Largest number of nodes of a tree given to the plain codecs.
MaxPlainNodes == 3

ContentKinds == {"Text", "Keybind", "Score", "Translation", "Empty"}

\* The styles of the trees given to the plain codecs.
PlainStyles == {BLANK, [Flags({"bold"}) EXCEPT !.color = Some(Named("Green"))]}

\* The tree with parents p, links l and contents k, every node styled st.
\* A node with arguments has Translation content whatever k says.
PlainTree(p, l, k, st) ==
    [i \in DOMAIN p |->
        LET kind == IF \E j \in DOMAIN p : j # 1 /\ p[j] = i /\ l[j] = "with"
                    THEN "Translation" ELSE k[i]
        IN Node(p[i], IF i = 1 THEN "root" ELSE l[i], kind,
                IF kind = "Empty" THEN <<>> ELSE NodeText(i), st)]

InitPlain ==
    /\ mode \in {"PlainTextCodec", "PlainTextComponentCodec"}
    /\ \E n \in 1 .. MaxPlainNodes : \E p \in Shapes(n) :
         \E l \in [1 .. n -> {"extra", "with"}] :
           \E k \in [1 .. n -> ContentKinds] : \E st \in PlainStyles :
             tree = PlainTree(p, l, k, st)
    /\ flat = FlatIterator_new(tree, Root)
    /\ enc = [pc |-> "loop", out |-> <<>>]
    /\ ci = Idle /\ vis = Idle /\ dec = Idle /\ sty = Idle /\ call = Idle
    /\ yielded = <<>> /\ nones = 0

\* One turn of the loop of PlainTextCodec::serialize.
PlainSerializeTurn ==
    /\ mode = "PlainTextCodec" /\ enc.pc = "loop"
    /\ LET r == FlatIterator_next(flat, tree)
       IN /\ IsSome(r.item)
          /\ flat' = r.self
          /\ Logged(r)
          /\ enc' = [enc EXCEPT !.out =
                        PlainTextCodec_append(enc.out, tree, Unwrap(r.item))]
    /\ UNCHANGED <<mode, tree, ci, vis, dec, sty, call>>

\* The iterator is exhausted: PlainTextCodec::serialize returns out.
PlainSerializeReturn ==
    /\ mode = "PlainTextCodec" /\ enc.pc = "loop"
    /\ LET r == FlatIterator_next(flat, tree)
       IN /\ r.item = None
          /\ flat' = r.self
          /\ Logged(r)
          /\ enc' = [enc EXCEPT !.pc = "returned"]
    /\ UNCHANGED <<mode, tree, ci, vis, dec, sty, call>>

\* One turn of the loop of PlainTextComponentCodec::serialize.
PlainComponentSerializeTurn ==
    /\ mode = "PlainTextComponentCodec" /\ enc.pc = "loop"
    /\ LET r == FlatIterator_next(flat, tree)
       IN /\ IsSome(r.item)
          /\ flat' = r.self
          /\ Logged(r)
          /\ enc' = [enc EXCEPT !.out =
                 PlainTextComponentCodec_append(enc.out, tree,
                                                Unwrap(r.item))]
    /\ UNCHANGED <<mode, tree, ci, vis, dec, sty, call>>

\* The iterator is exhausted: PlainTextComponentCodec::serialize returns.
PlainComponentSerializeReturn ==
    /\ mode = "PlainTextComponentCodec" /\ enc.pc = "loop"
    /\ LET r == FlatIterator_next(flat, tree)
       IN /\ r.item = None
          /\ flat' = r.self
          /\ Logged(r)
          /\ enc' = [enc EXCEPT !.pc = "returned"]
    /\ UNCHANGED <<mode, tree, ci, vis, dec, sty, call>>

NextPlain ==
    \/ PlainSerializeTurn
    \/ PlainSerializeReturn
    \/ PlainComponentSerializeTurn
    \/ PlainComponentSerializeReturn

SpecPlain == InitPlain /\ [][NextPlain]_vars

\* The shallow representation of node i as the documentation of the plain
\* codec gives it: the string of a Text, "[key]" for a Keybind, the value
\* of a Score, "<key:arg1:arg2:...>" for a Translation, nothing for Empty.
RECURSIVE ShallowRepr(_, _)
RECURSIVE ColonRepr(_, _)
ShallowRepr(t, i) ==
    IF t[i].kind \in {"Text", "Score"} THEN t[i].text
    ELSE IF t[i].kind = "Keybind" THEN <<"[">> \o t[i].text \o <<"]">>
    ELSE IF t[i].kind = "Translation"
         THEN <<"<">> \o t[i].text \o ConcatMap(ColonRepr, t, With(t, i))
                     \o <<">">>
    ELSE <<>>

ColonRepr(t, a) == <<":">> \o ShallowRepr(t, a)

(* C13: PlainTextCodec::serialize returns the concatenation, in            *)
(* depth-first order over the extra children (translation arguments are    *)
(* not visited), of each node's shallow representation; no style           *)
(* information appears in the output.                                      *)
C13_PlainShallowConcat ==
    (mode = "PlainTextCodec" /\ enc.pc = "returned") =>
        enc.out = ConcatMap(ShallowRepr, tree, Preorder(tree, Root))

\* The same statement for PlainTextComponentCodec::serialize of codec.rs,
\* which appends the Display form of each node's content.
C13_ComponentCodecCase ==
    (mode = "PlainTextComponentCodec" /\ enc.pc = "returned") =>
        enc.out = ConcatMap(ShallowRepr, tree, Preorder(tree, Root))

\* The string of node i when it is a Text, nothing otherwise.
TextOnly(t, i) == IF t[i].kind = "Text" THEN t[i].text ELSE <<>>

\* What PlainTextCodec::serialize returns: the strings of the Text nodes
\* only, in depth-first order over the extra children.
C13_PlainTextNodesOnly ==
    (mode = "PlainTextCodec" /\ enc.pc = "returned") =>
        enc.out = ConcatMap(TextOnly, tree, Preorder(tree, Root))

---------------------------------------------------------------------------
(* The serde representation: hex_serde and TextColor (src/style.rs), the   *)
(* Serialize and Deserialize impls of Component (src/serial.rs).  A        *)
(* serialized value is a token tree of the serde data model, as in         *)
(* tests/serial.rs: Str, Bool, UnitVariant, SomeTok, Seq and Map.          *)

\* Result::Ok and Result::Err
Ok(v) == [ok |-> TRUE, v |-> v]

Err(e) == [ok |-> FALSE, err |-> e]

Str(s) == [tok |-> "Str", v |-> s]

Bool(b) == [tok |-> "Bool", v |-> b]

UnitVariant(variant) == [tok |-> "UnitVariant", v |-> variant]

SomeTok(x) == [tok |-> "Some", v |-> x]

SeqTok(items) == [tok |-> "Seq", v |-> items]

MapTok(entries) == [tok |-> "Map", v |-> entries]

\* The digits of the {:X} format.
UpperHexDigits ==
    <<"0", "1", "2", "3", "4", "5", "6", "7", "8", "9",
      "A", "B", "C", "D", "E", "F">>

\* {:X} of a number below 2^16.
RECURSIVE UpperHexNat(_)
UpperHexNat(n) ==
    IF n < 16 THEN <<UpperHexDigits[n + 1]>>
    ELSE UpperHexNat(n \div 16) \o <<UpperHexDigits[(n % 16) + 1]>>

\* Zero padding on the left up to a minimum width.
RECURSIVE ZeroPad(_, _)
ZeroPad(s, width) ==
    IF Len(s) >= width THEN s ELSE ZeroPad(<<"0">> \o s, width)

\* {:X} of a u32: no leading zeros.
UpperHex(value) ==
    IF value[1] = 0 THEN UpperHexNat(value[2])
    ELSE UpperHexNat(value[1]) \o ZeroPad(UpperHexNat(value[2]), 4)

\* Mutant: the format has no minimum width ("#{value:X}").
FormatHex_unpadded(value) == <<"#">> \o UpperHex(value)

\* format!("#{value:06X}")
FormatHex(value) == <<"#">> \o ZeroPad(UpperHex(value), 6)

\* *value > 0xFFFFFF
ExceedsFFFFFF(value) == value[1] > 255

\* hex_serde::serialize
hex_serde_serialize(value) ==
    IF ExceedsFFFFFF(value) THEN Err("hex value cannot exceed 0xFFFFFF")
    ELSE Ok(Str(FormatHex(value)))

\* char::to_digit(16)
to_digit(c) ==
    LET lower == <<"0", "1", "2", "3", "4", "5", "6", "7", "8", "9",
                   "a", "b", "c", "d", "e", "f">>
    IN IF \E k \in DOMAIN UpperHexDigits : UpperHexDigits[k] = c
       THEN Some((CHOOSE k \in DOMAIN UpperHexDigits :
                     UpperHexDigits[k] = c) - 1)
       ELSE IF \E k \in DOMAIN lower : lower[k] = c
       THEN Some((CHOOSE k \in DOMAIN lower : lower[k] = c) - 1)
       ELSE None

\* The digit loop of u32::from_str_radix(_, 16): result * 16 + digit with
\* the overflow of u32 detected.
RECURSIVE ParseDigits(_, _)
ParseDigits(result, digits) ==
    IF digits = <<>> THEN Ok(result)
    ELSE LET d == to_digit(Head(digits))
         IN IF d = None THEN Err("InvalidDigit")
            ELSE LET low  == result[2] * 16 + Unwrap(d)
                     high == result[1] * 16 + low \div 65536
                 IN IF high > 65535 THEN Err("PosOverflow")
                    ELSE ParseDigits(<<high, low % 65536>>, Tail(digits))

\* u32::from_str_radix(src, 16): an empty string and a lone sign are
\* errors, one leading '+' is skipped, '-' is no digit of an unsigned type.
u32_from_str_radix(src) ==
    IF src = <<>> THEN Err("Empty")
    ELSE IF src \in {<<"+">>, <<"-">>} THEN Err("InvalidDigit")
    ELSE IF Head(src) = "+" THEN ParseDigits(<<0, 0>>, Tail(src))
    ELSE ParseDigits(<<0, 0>>, src)

\* hex_serde::deserialize on a string
hex_serde_deserialize(hex_string) ==
    IF hex_string = <<>> \/ Head(hex_string) # "#"
    THEN Err("expected hex literal")
    ELSE LET r == u32_from_str_radix(Tail(hex_string))
         IN IF r.ok THEN r ELSE Err("expected hex literal")

\* #[serde(rename_all = "snake_case")] on the named variants of TextColor.
VariantNames ==
    <<<<"Black", "black">>, <<"DarkBlue", "dark_blue">>,
      <<"DarkGreen", "dark_green">>, <<"DarkAqua", "dark_aqua">>,
      <<"DarkRed", "dark_red">>, <<"DarkPurple", "dark_purple">>,
      <<"Gold", "gold">>, <<"Gray", "gray">>, <<"DarkGray", "dark_gray">>,
      <<"Blue", "blue">>, <<"Green", "green">>, <<"Aqua", "aqua">>,
      <<"Red", "red">>, <<"LightPurple", "light_purple">>,
      <<"Yellow", "yellow">>, <<"White", "white">>>>

\* Serialize for TextColor: a unit variant, or hex_serde for Hex.
TextColor_serialize(color) ==
    IF color.name = "Hex" THEN hex_serde_serialize(color.value)
    ELSE Ok(UnitVariant(
            (CHOOSE p \in Range(VariantNames) : p[1] = color.name)[2]))

\* Deserialize for TextColor: a known unit variant, else the untagged Hex
\* variant through hex_serde on a string.
TextColor_deserialize(token) ==
    IF /\ token.tok = "UnitVariant"
       /\ \E p \in Range(VariantNames) : p[2] = token.v
    THEN Ok(Named((CHOOSE p \in Range(VariantNames) : p[2] = token.v)[1]))
    ELSE IF token.tok = "Str"
    THEN LET r == hex_serde_deserialize(token.v)
         IN IF r.ok THEN Ok(Hex(r.v)) ELSE r
    ELSE Err("data did not match any variant of TextColor")

\* Serialize for the value of a set style field: a bool, a color or a
\* string (the event fields are never set in the styles given here).
Field_serialize(f, v) ==
    CASE f \in Range(FlagFields) -> Ok(Bool(v))
      [] f = "color" -> TextColor_serialize(v)
      [] f \in {"font", "insertion"} -> Ok(Str(v))

\* The derived Serialize of Style over the given fields: one entry per set
\* field, in field order (skip_serializing_if = "Option::is_none").
RECURSIVE StyleEntries(_, _)
StyleEntries(style, fields) ==
    IF fields = <<>> THEN Ok(<<>>)
    ELSE LET f    == Head(fields)
             rest == StyleEntries(style, Tail(fields))
         IN IF style[f] = None THEN rest
            ELSE LET r == Field_serialize(f, Unwrap(style[f]))
                 IN IF ~r.ok THEN r
                    ELSE IF ~rest.ok THEN rest
                    ELSE Ok(<<<<f, SomeTok(r.v)>>>> \o rest.v)

Keybind(key) == [kind |-> "Keybind", text |-> key]

\* The flattened, externally tagged ComponentBody: "text" or "keybind".
BodyEntries(body) ==
    CASE body.kind = "Text" -> <<<<"text", Str(body.text)>>>>
      [] body.kind = "Keybind" -> <<<<"keybind", Str(body.text)>>>>

\* Mutant: the style is not looked at before compacting.
Compacts_ignoreStyle(self) ==
    self.extra = <<>> /\ self.content.kind = "Text"

\* The test of Serialize for Component for the compact form:
\* self.extra.is_empty() && self.style.is_blank(), and the body is Text.
Compacts(self) ==
    self.extra = <<>> /\ is_blank(self.style) /\ self.content.kind = "Text"

\* impl Serialize for Component, and the same for each element of extra.
RECURSIVE Component_serialize(_)
RECURSIVE SerializeAll(_)
Component_serialize(self) ==
    IF Compacts(self) THEN Ok(Str(self.content.text))
    ELSE LET style == StyleEntries(self.style, StyleFields)
             extra == SerializeAll(self.extra)
         IN IF ~style.ok THEN style
            ELSE IF ~extra.ok THEN extra
            ELSE Ok(MapTok(style.v \o BodyEntries(self.content) \o
                           (IF self.extra = <<>> THEN <<>>
                            ELSE <<<<"extra", SeqTok(extra.v)>>>>)))

SerializeAll(extra) ==
    IF extra = <<>> THEN Ok(<<>>)
    ELSE LET first == Component_serialize(Head(extra))
             rest  == SerializeAll(Tail(extra))
         IN IF ~first.ok THEN first
            ELSE IF ~rest.ok THEN rest
            ELSE Ok(<<first.v>> \o rest.v)

\* The value of the entry with the given key, None when there is none.
Entry(entries, key) ==
    IF \E k \in DOMAIN entries : entries[k][1] = key
    THEN Some(entries[CHOOSE k \in DOMAIN entries : entries[k][1] = key][2])
    ELSE None

\* Mutant: a flag that is present is read as true.
Field_deserialize_present(f, token) ==
    IF token.tok # "Some" THEN Err("invalid type")
    ELSE CASE f \in Range(FlagFields) -> Ok("true")
           [] f = "color" -> TextColor_deserialize(token.v)
           [] f \in {"font", "insertion"} ->
                 IF token.v.tok = "Str" THEN Ok(token.v.v)
                 ELSE Err("invalid type")

\* Deserialize for the value of a style field that is present.
Field_deserialize(f, token) ==
    IF token.tok # "Some" THEN Err("invalid type")
    ELSE CASE f \in Range(FlagFields) ->
                 IF token.v.tok = "Bool" THEN Ok(token.v.v)
                 ELSE Err("invalid type")
           [] f = "color" -> TextColor_deserialize(token.v)
           [] f \in {"font", "insertion"} ->
                 IF token.v.tok = "Str" THEN Ok(token.v.v)
                 ELSE Err("invalid type")

\* The derived Deserialize of Style, flattened: each field from its entry,
\* None when the entry is missing.
RECURSIVE StyleFrom(_, _, _)
StyleFrom(style, entries, fields) ==
    IF fields = <<>> THEN Ok(style)
    ELSE LET f == Head(fields)
             e == Entry(entries, f)
         IN IF e = None THEN StyleFrom(style, entries, Tail(fields))
            ELSE LET r == Field_deserialize(f, Unwrap(e))
                 IN IF ~r.ok THEN r
                    ELSE StyleFrom([style EXCEPT ![f] = Some(r.v)],
                                   entries, Tail(fields))

\* The derived Deserialize of ComponentBody, flattened.
Body_deserialize(entries) ==
    IF IsSome(Entry(entries, "text")) /\
       Unwrap(Entry(entries, "text")).tok = "Str"
    THEN Ok(Text(Unwrap(Entry(entries, "text")).v))
    ELSE IF IsSome(Entry(entries, "keybind")) /\
            Unwrap(Entry(entries, "keybind")).tok = "Str"
    THEN Ok(Keybind(Unwrap(Entry(entries, "keybind")).v))
    ELSE Err("data did not match any variant of ComponentBody")

\* impl Deserialize for Component through the untagged DeserializeVessel:
\* PlainText(String) gives Component::text, a map gives the three fields
\* (extra defaults to the empty vector).
RECURSIVE Component_deserialize(_)
RECURSIVE DeserializeAll(_)
Component_deserialize(token) ==
    IF token.tok = "Str" THEN Ok(Component(Text(token.v), BLANK, <<>>))
    ELSE IF token.tok # "Map"
    THEN Err("data did not match any variant of DeserializeVessel")
    ELSE LET style == StyleFrom(BLANK, token.v, StyleFields)
             body  == Body_deserialize(token.v)
             e     == Entry(token.v, "extra")
             extra == IF e = None THEN Ok(<<>>)
                      ELSE IF Unwrap(e).tok # "Seq" THEN Err("invalid type")
                      ELSE DeserializeAll(Unwrap(e).v)
         IN IF ~style.ok THEN style
            ELSE IF ~body.ok THEN body
            ELSE IF ~extra.ok THEN extra
            ELSE Ok(Component(body.v, style.v, extra.v))

DeserializeAll(items) ==
    IF items = <<>> THEN Ok(<<>>)
    ELSE LET first == Component_deserialize(Head(items))
             rest  == DeserializeAll(Tail(items))
         IN IF ~first.ok THEN first
            ELSE IF ~rest.ok THEN rest
            ELSE Ok(<<first.v>> \o rest.v)

---------------------------------------------------------------------------
(* The serde functions as a state machine: a component is serialized and   *)
(* the tokens are deserialized again; a u32 goes through                   *)
(* hex_serde::serialize; a string goes through hex_serde::deserialize and  *)
(* an accepted value through hex_serde::serialize again.                   *)

\* Most children of an enumerated root component.
MaxSerialExtra == 2

\* Longest enumerated input of hex_serde::deserialize (the examples are
\* longer).
MaxHexLen == 3

\* The styles of the serialized components: flags set to true and to
\* false, named colors, hex colors in range (0x000123, 0xAABBCC) and one
\* out of range (0x1000000).
SerialStyles ==
    {BLANK,
     Flags({"bold"}),
     [BLANK EXCEPT !.bold = Some("false")],
     [Flags({"italic"}) EXCEPT !.color = Some(Named("Green"))],
     [BLANK EXCEPT !.color = Some(Hex(U32(291)))],
     [Flags({"underlined", "obfuscated"}) EXCEPT
         !.color = Some(Hex(U32(11189196)))],
     [BLANK EXCEPT !.color = Some(Hex(U32(16777216)))]}

SerialContents == {Text(<<"h", "i">>), Text(<<>>), Keybind(<<"k">>)}

\* The children of the enumerated roots.
SerialLeaves ==
    {Component(content, style, <<>>) :
        content \in {Text(<<"y", "o">>), Text(<<>>)},
        style \in {BLANK,
                   [BLANK EXCEPT !.bold = Some("false")],
                   [Flags({"italic"}) EXCEPT !.color = Some(Named("Blue"))],
                   [BLANK EXCEPT !.color = Some(Hex(U32(291)))]}}

\* Every sequence of at most n leaves.
RECURSIVE LeafSeqs(_)
LeafSeqs(n) ==
    IF n = 0 THEN {<<>>}
    ELSE LeafSeqs(n - 1) \cup
         {Append(w, c) : w \in LeafSeqs(n - 1), c \in SerialLeaves}

\* tests/common.rs styled_hello()
styled_hello ==
    Component(Text(<<"h", "e", "l", "l", "o", " ">>),
              [Flags({"bold"}) EXCEPT !.color = Some(Named("Green"))],
              <<Component(Text(<<"w", "o", "r", "l", "d">>),
                          [Flags({"italic"}) EXCEPT
                              !.color = Some(Named("Blue"))],
                          <<>>)>>)

\* Components three levels deep: a child that has children itself.
NestedComponents ==
    {Component(Text(<<"a">>), style,
               <<Component(Text(<<"b">>), BLANK, <<c>>), c>>) :
        style \in {BLANK, Flags({"bold"})}, c \in SerialLeaves}

\* The u32 values given to hex_serde::serialize.
HexValues ==
    {U32(0), U32(1), U32(291), U32(11189196), U32(16777215), U32(16777216),
     U32(2147483647), U32_MAX}
    \cup {<<h, l>> : h \in {0, 1, 15, 16, 255, 256},
                     l \in {0, 9, 10, 255, 4096, 65535}}

HexChars == {"#", "+", "1", "F", "f", "g"}

\* Every string over HexChars of at most the given length.
RECURSIVE HexStringsUpTo(_)
HexStringsUpTo(n) ==
    IF n = 0 THEN {<<>>}
    ELSE HexStringsUpTo(n - 1) \cup
         {Append(w, c) : w \in HexStringsUpTo(n - 1), c \in HexChars}

\* The strings given to hex_serde::deserialize.
HexStrings ==
    HexStringsUpTo(MaxHexLen)
    \cup {<<"#", "A", "A", "B", "B", "C", "C">>,
          <<"#", "a", "a", "b", "b", "c", "c">>,
          <<"#", "0", "0", "0", "1", "2", "3">>,
          <<"#", "F", "F", "F", "F", "F", "F">>,
          <<"#", "1", "0", "0", "0", "0", "0", "0">>,
          <<"#", "F", "F", "F", "F", "F", "F", "F", "F">>,
          <<"#", "1", "0", "0", "0", "0", "0", "0", "0", "0">>,
          <<"A", "A", "B", "B", "C", "C">>,
          <<"#", "-", "1">>, <<"#", " ", "1">>, <<"#", "0", "x", "1">>}

InitSerial ==
    /\ mode \in {"Component", "hex_serialize", "hex_deserialize"}
    /\ \/ /\ mode = "Component"
          /\ \/ \E content \in SerialContents : \E style \in SerialStyles :
                  \E extra \in LeafSeqs(MaxSerialExtra) :
                     call = [pc |-> "called",
                             arg |-> Component(content, style, extra)]
             \/ \E c \in NestedComponents \cup {styled_hello} :
                     call = [pc |-> "called", arg |-> c]
       \/ /\ mode = "hex_serialize"
          /\ \E v \in HexValues : call = [pc |-> "called", arg |-> v]
       \/ /\ mode = "hex_deserialize"
          /\ \E w \in HexStrings : call = [pc |-> "called", arg |-> w]
    /\ tree = Idle /\ flat = Idle /\ ci = Idle /\ vis = Idle
    /\ enc = Idle /\ dec = Idle /\ sty = Idle
    /\ yielded = <<>> /\ nones = 0

\* component.serialize(serializer)
SerializeComponent ==
    /\ mode = "Component" /\ call.pc = "called"
    /\ call' = [pc |-> "serialized", arg |-> call.arg,
                out |-> Component_serialize(call.arg)]
    /\ UNCHANGED <<mode, tree, flat, ci, vis, yielded, nones, enc, dec, sty>>

\* Component::deserialize(deserializer) on the tokens just written.
DeserializeComponent ==
    /\ mode = "Component" /\ call.pc = "serialized" /\ call.out.ok
    /\ call' = [pc |-> "deserialized", arg |-> call.arg, out |-> call.out,
                back |-> Component_deserialize(call.out.v)]
    /\ UNCHANGED <<mode, tree, flat, ci, vis, yielded, nones, enc, dec, sty>>

\* hex_serde::serialize(&value, serializer)
HexSerialize ==
    /\ mode = "hex_serialize" /\ call.pc = "called"
    /\ call' = [pc |-> "returned", arg |-> call.arg,
                result |-> hex_serde_serialize(call.arg)]
    /\ UNCHANGED <<mode, tree, flat, ci, vis, yielded, nones, enc, dec, sty>>

\* hex_serde::deserialize(deserializer) on a string
HexDeserialize ==
    /\ mode = "hex_deserialize" /\ call.pc = "called"
    /\ call' = [pc |-> "returned", arg |-> call.arg,
                result |-> hex_serde_deserialize(call.arg)]
    /\ UNCHANGED <<mode, tree, flat, ci, vis, yielded, nones, enc, dec, sty>>

\* hex_serde::serialize on the value hex_serde::deserialize accepted.
HexReserialize ==
    /\ mode = "hex_deserialize" /\ call.pc = "returned" /\ call.result.ok
    /\ call' = [pc |-> "reserialized", arg |-> call.arg,
                result |-> call.result,
                again |-> hex_serde_serialize(call.result.v)]
    /\ UNCHANGED <<mode, tree, flat, ci, vis, yielded, nones, enc, dec, sty>>

NextSerial ==
    \/ SerializeComponent
    \/ DeserializeComponent
    \/ HexSerialize
    \/ HexDeserialize
    \/ HexReserialize

SpecSerial == InitSerial /\ [][NextSerial]_vars

\* The component was serialized without error.
Serialized ==
    /\ mode = "Component"
    /\ call.pc \in {"serialized", "deserialized"}
    /\ call.out.ok

(* C14: the structured serializer emits a component as a bare string if    *)
(* and only if it has no extra children, a blank style (all ten fields     *)
(* unset) and Text content; every other component is emitted as a map.     *)
C14_CompactIffPlainText ==
    Serialized =>
        LET c     == call.arg
            plain == /\ c.extra = <<>>
                     /\ \A f \in DOMAIN c.style : c.style[f] = {}
                     /\ c.content.kind = "Text"
        IN /\ plain => call.out.v = Str(c.content.text)
           /\ ~plain => call.out.v.tok = "Map"
           /\ call.out.v.tok \in {"Str", "Map"}

\* compacting_tokens: text with bold set and no children is emitted as the
\* map of "bold" and "text".
C14_Witness ==
    /\ Serialized
    /\ call.arg = Component(Text(<<"h", "i">>), Flags({"bold"}), <<>>)
    /\ call.out.v = MapTok(<<<<"bold", SomeTok(Bool("true"))>>,
                             <<"text", Str(<<"h", "i">>)>>>>)

\* Every content of the component tree is Text.
RECURSIVE AllText(_)
AllText(c) ==
    c.content.kind = "Text" /\ \A k \in DOMAIN c.extra : AllText(c.extra[k])

\* Every hex color of the component tree is at most 0xFFFFFF.
RECURSIVE HexInRange(_)
HexInRange(c) ==
    /\ \A col \in c.style.color : col.name = "Hex" => col.value[1] <= 255
    /\ \A k \in DOMAIN c.extra : HexInRange(c.extra[k])

(* C15: for every component tree c built from Text content, boolean flags, *)
(* named or in-range hex colours and extra children, the structured        *)
(* encoding succeeds and decode(encode(c)) equals c: same content, same    *)
(* style fields (unset stays unset), same children in the same order,      *)
(* whether or not c was emitted in the compact bare-string form.           *)
C15_StructuredRoundTrip ==
    (mode = "Component" /\ AllText(call.arg) /\ HexInRange(call.arg)) =>
        /\ call.pc = "serialized" => call.out.ok
        /\ call.pc = "deserialized" => call.back = Ok(call.arg)

\* A text with bold set to false, a hex color and two different children
\* came back equal from its map form.
C15_Witness ==
    /\ mode = "Component" /\ call.pc = "deserialized"
    /\ AllText(call.arg)
    /\ call.arg.style.color = Some(Hex(U32(291)))
    /\ Len(call.arg.extra) = 2
    /\ call.arg.extra[1] # call.arg.extra[2]
    /\ call.arg.extra[2].style.bold = Some("false")
    /\ call.out.v.tok = "Map"
    /\ call.back = Ok(call.arg)

\* The number a string of uppercase hexadecimal digits denotes (below
\* 2^16 here).
RECURSIVE HexValue(_)
HexValue(ds) ==
    IF ds = <<>> THEN 0
    ELSE HexValue(SubSeq(ds, 1, Len(ds) - 1)) * 16
         + (CHOOSE k \in 0 .. 15 : UpperHexDigits[k + 1] = ds[Len(ds)])

(* C16: serializing TextColor::Hex(v) fails with an error when             *)
(* v > 0xFFFFFF and otherwise yields '#' followed by exactly six uppercase *)
(* hexadecimal digits, zero-padded, that denote v (0xAABBCC gives          *)
(* "#AABBCC", 0x000123 gives "#000123").                                   *)
C16_HexSerializeRange ==
    (mode = "hex_serialize" /\ call.pc = "returned") =>
        LET v == call.arg
            s == call.result.v.v
        IN /\ v[1] >= 256 => ~call.result.ok
           /\ v[1] < 256 =>
                /\ call.result.ok
                /\ call.result.v.tok = "Str"
                /\ Len(s) = 7
                /\ s[1] = "#"
                /\ \A k \in 2 .. 7 : s[k] \in Range(UpperHexDigits)
                /\ HexValue(SubSeq(s, 2, 3)) = v[1]
                /\ HexValue(SubSeq(s, 4, 7)) = v[2]
           /\ v = U32(11189196) =>
                s = <<"#", "A", "A", "B", "B", "C", "C">>
           /\ v = U32(291) => s = <<"#", "0", "0", "0", "1", "2", "3">>

\* color_tokens: 0x000123 was serialized as "#000123".
C16_Witness ==
    /\ mode = "hex_serialize" /\ call.pc = "returned"
    /\ call.arg = U32(291)
    /\ call.result = Ok(Str(<<"#", "0", "0", "0", "1", "2", "3">>))

\* The character is a hexadecimal digit, of either case.
IsHexDigit(c) ==
    c \in Range(UpperHexDigits) \cup {"a", "b", "c", "d", "e", "f"}

\* The string without its leading zeros.
RECURSIVE StripZeros(_)
StripZeros(ds) ==
    IF ds # <<>> /\ Head(ds) = "0" THEN StripZeros(Tail(ds)) ELSE ds

\* '#' followed by at least one hexadecimal digit, the digits denoting a
\* value of at most 0xFFFFFF.
WellFormed24(w) ==
    /\ Len(w) >= 2
    /\ w[1] = "#"
    /\ \A k \in 2 .. Len(w) : IsHexDigit(w[k])
    /\ Len(StripZeros(Tail(w))) <= 6

(* C17: deserializing a hex colour string fails unless the string is '#'   *)
(* followed by hexadecimal digits denoting a value in 0..=0xFFFFFF, so     *)
(* every value the decoder accepts can be serialized again without a       *)
(* range error.                                                            *)
C17_HexDeserializeRange ==
    (mode = "hex_deserialize" /\ call.pc \in {"returned", "reserialized"}) =>
        /\ call.result.ok =>
              WellFormed24(call.arg) /\ call.result.v[1] <= 255
        /\ call.pc = "reserialized" => call.again.ok

\* What the code accepts: '#', one optional '+', then at least one
\* hexadecimal digit, the digits denoting any value of a u32.
C17_AcceptsEveryU32 ==
    (mode = "hex_deserialize" /\ call.pc = "returned") =>
        LET w  == call.arg
            ds == IF Len(w) >= 2 /\ w[2] = "+" THEN SubSeq(w, 3, Len(w))
                  ELSE Tail(w)
        IN call.result.ok <=>
              /\ w # <<>>
              /\ w[1] = "#"
              /\ ds # <<>>
              /\ \A k \in DOMAIN ds : IsHexDigit(ds[k])
              /\ Len(StripZeros(ds)) <= 8

---------------------------------------------------------------------------
(* Methods of Component (src/component.rs) on component values: try_into   *)
(* and content_size, one call each.                                        *)

Score(name, objective, value) ==
    [kind |-> "Score", name |-> name, objective |-> objective,
     value |-> value]

Translation(key, with) == [kind |-> "Translation", key |-> key, with |-> with]

\* Mutant: the error carries the component without its children.
Component_try_into_childless(self) ==
    IF self.content.kind = "Text" THEN Ok(self.content.text)
    ELSE Err(Component(self.content, self.style, <<>>))

\* impl TryInto<String> for Component:
\* match self.content { Content::Text(text) => Ok(text), _ => Err(self) }
Component_try_into(self) ==
    IF self.content.kind = "Text" THEN Ok(self.content.text)
    ELSE Err(self)

\* Component::content_size: the body is the literal 0.
content_size(self) == 0

\* The contents of the components the methods are called on.
MethodContents ==
    {Text(<<"h", "i">>), Text(<<>>), Keybind(<<"k">>),
     Score(<<"n">>, <<"o">>, <<"7">>), Empty,
     Translation(<<"t">>, <<>>),
     Translation(<<"t">>, <<create_flat(Text(<<"a">>), BLANK)>>),
     Translation(<<"t">>,
                 <<create_flat(Text(<<"a">>), Flags({"bold"})),
                   Component(Translation(<<"u">>,
                                  <<create_flat(Text(<<"b">>), BLANK)>>),
                             BLANK,
                             <<create_flat(Text(<<"c">>), BLANK)>>)>>)}

MethodStyles ==
    {BLANK, Flags({"bold"}),
     [Flags({"italic"}) EXCEPT !.color = Some(Named("Green"))]}

InitComponent ==
    /\ mode \in {"try_into", "content_size"}
    /\ \E content \in MethodContents : \E style \in MethodStyles :
         \E extra \in LeafSeqs(MaxSerialExtra) :
            call = [pc |-> "called", arg |-> Component(content, style, extra)]
    /\ tree = Idle /\ flat = Idle /\ ci = Idle /\ vis = Idle
    /\ enc = Idle /\ dec = Idle /\ sty = Idle
    /\ yielded = <<>> /\ nones = 0

\* let r: Result<String, Component> = component.try_into()
TryInto ==
    /\ mode = "try_into" /\ call.pc = "called"
    /\ call' = [pc |-> "returned", arg |-> call.arg,
                result |-> Component_try_into(call.arg)]
    /\ UNCHANGED <<mode, tree, flat, ci, vis, yielded, nones, enc, dec, sty>>

\* component.content_size()
ContentSize ==
    /\ mode = "content_size" /\ call.pc = "called"
    /\ call' = [pc |-> "returned", arg |-> call.arg,
                result |-> content_size(call.arg)]
    /\ UNCHANGED <<mode, tree, flat, ci, vis, yielded, nones, enc, dec, sty>>

NextComponent ==
    \/ TryInto
    \/ ContentSize

SpecComponent == InitComponent /\ [][NextComponent]_vars

(* C18: converting a Component into a String with try_into succeeds only   *)
(* when its content is Text; for any other content it returns Err carrying *)
(* a component equal to the original in content, style and extra children. *)
C18_TryIntoKeepsComponent ==
    (mode = "try_into" /\ call.pc = "returned") =>
        /\ call.result.ok <=> call.arg.content.kind = "Text"
        /\ call.result.ok => call.result.v = call.arg.content.text
        /\ ~call.result.ok =>
              /\ call.result.err.content = call.arg.content
              /\ call.result.err.style = call.arg.style
              /\ call.result.err.extra = call.arg.extra

\* try_into failed on a styled translation with arguments and two
\* children, and the error holds all of it.
C18_Witness ==
    /\ mode = "try_into" /\ call.pc = "returned"
    /\ call.arg.content.kind = "Translation"
    /\ Len(call.arg.content.with) = 2
    /\ call.arg.style # BLANK
    /\ Len(call.arg.extra) = 2
    /\ ~call.result.ok
    /\ call.result.err = call.arg

\* The number of content nodes of a component: itself, the nodes of its
\* extra children and, for a Translation, the nodes of its arguments.
RECURSIVE ContentNodes(_)
RECURSIVE SumContentNodes(_)
ContentNodes(c) ==
    1 + SumContentNodes(c.extra)
      + (IF c.content.kind = "Translation"
         THEN SumContentNodes(c.content.with) ELSE 0)

SumContentNodes(cs) ==
    IF cs = <<>> THEN 0
    ELSE ContentNodes(Head(cs)) + SumContentNodes(Tail(cs))

(* C20: Component::content_size() returns the number of content nodes of   *)
(* the component tree, counting the arguments of Translation components in *)
(* addition to the nodes reached through extra children.                   *)
C20_ContentSizeCounts ==
    (mode = "content_size" /\ call.pc = "returned") =>
        call.result = ContentNodes(call.arg)

\* What the code returns: 0 for every component.
C20_AlwaysZero ==
    (mode = "content_size" /\ call.pc = "returned") => call.result = 0

(* C19: Style::is_blank() returns true if and only if every one of the ten *)
(* style fields is unset, and after Style::clear() the style is blank      *)
(* whatever its fields held before.                                        *)
C19_BlankIffAllUnset ==
    mode = "style" =>
        /\ Cardinality(DOMAIN sty.self) = 10
        /\ sty.pc = "checked" =>
              (sty.blank <=> {f \in DOMAIN sty.self : sty.self[f] # {}} = {})
        /\ sty.pc = "cleared" => \A f \in DOMAIN sty.self : sty.self[f] = {}
        /\ (sty.pc = "checked" /\ sty.was = "cleared") => sty.blank

\* is_blank returned true on a style that clear() emptied and that had a
\* flag and the color set before.
C19_Witness ==
    /\ mode = "style" /\ sty.pc = "checked" /\ sty.was = "cleared"
    /\ sty.old.color # {} /\ sty.old.bold # {}
    /\ sty.blank


---------------------------------------------------------------------------
(* The codes serialize writes for one node.                                *)

\* The format codes in the order the claim fixes.
CodeOrder == <<"l", "o", "n", "m", "k">>

\* The code that stands for each flag.
CodeOfFlag ==
    [bold |-> "l", italic |-> "o", underlined |-> "n",
     strikethrough |-> "m", obfuscated |-> "k"]

\* The string of one two-character sequence, control character then code,
\* for each code of the sequence.
RECURSIVE RunOf(_)
RunOf(codes) ==
    IF codes = <<>> THEN <<>>
    ELSE <<S, Head(codes)>> \o RunOf(Tail(codes))

\* The codes of the set, each once, in the fixed order, as a string.
OrderedRun(codes) == RunOf(SelectSeq(CodeOrder, LAMBDA c : c \in codes))

\* The codes of the flags that are true in the own style of node i.
OwnTrueCodes(t, i) ==
    {CodeOfFlag[f] : f \in {g \in DOMAIN CodeOfFlag :
                                t[i].style[g] = Some("true")}}

\* The part of the output of the k-th Push between the color code, if any,
\* and the text.
FormatRun(k) ==
    LET n      == enc.log[k].node
        chunk  == enc.log[k].chunk
        prefix == IF IsSome(tree[n].style.color) THEN 2 ELSE 0
    IN SubSeq(chunk, prefix + 1, Len(chunk) - Len(tree[n].text))

(* C21: in serialize, for a node whose own style sets no color the codes   *)
(* written for the node are exactly one two-character sequence per flag    *)
(* that is true in the node's own style; for every node the format codes   *)
(* come in the order l, o, n, m, k, after the color code if there is one   *)
(* and before the node's text.                                             *)
C21_OwnFlagsInFixedOrder ==
    mode = "encode" =>
        \A k \in DOMAIN enc.log :
            LET n      == enc.log[k].node
                own    == tree[n].style
                chunk  == enc.log[k].chunk
                text   == tree[n].text
                prefix == IF IsSome(own.color) THEN 2 ELSE 0
            IN /\ Len(chunk) >= prefix + Len(text)
               /\ SubSeq(chunk, Len(chunk) - Len(text) + 1, Len(chunk)) = text
               /\ IsSome(own.color) => chunk[1] = S
               /\ own.color = None =>
                     FormatRun(k) = OrderedRun(OwnTrueCodes(tree, n))
               /\ \E F \in SUBSET Range(CodeOrder) :
                     FormatRun(k) = OrderedRun(F)

\* A node without a color that sets two flags itself and inherits a third
\* one from its parent has been written.
C21_Witness ==
    /\ mode = "encode"
    /\ \E k \in DOMAIN enc.log :
          LET n == enc.log[k].node
          IN /\ tree[n].style.color = None
             /\ Cardinality(OwnTrueCodes(tree, n)) >= 2
             /\ tree[n].parent # 0
             /\ \E f \in DOMAIN CodeOfFlag :
                   /\ tree[n].style[f] = None
                   /\ Effective(tree, n, f) = Some("true")
             /\ FormatRun(k) = OrderedRun(OwnTrueCodes(tree, n))


---------------------------------------------------------------------------
(* The style stack of serialize.                                           *)

\* The nodes from the root down to node i.
RECURSIVE PathTo(_, _)
PathTo(t, i) ==
    IF t[i].parent = 0 THEN <<i>>
    ELSE Append(PathTo(t, t[i].parent), i)

\* The own styles of the nodes from the root down to node i.
PathStyles(t, i) ==
    LET path == PathTo(t, i) IN [k \in DOMAIN path |-> t[path[k]].style]

\* The styles the stack should hold after the events yielded so far: those
\* of the path to the node just pushed, or to the parent of the node just
\* popped.
OpenStyles ==
    IF yielded = <<>> THEN <<>>
    ELSE LET op == yielded[Len(yielded)]
         IN IF op[1] = "Push" THEN PathStyles(tree, op[2])
            ELSE IF tree[op[2]].parent = 0 THEN <<>>
            ELSE PathStyles(tree, tree[op[2]].parent)

(* C22: during serialize, at every Push(node) the style stack holds the    *)
(* styles of the path from the root to the node, in that order, and        *)
(* active_style is the node's effective style (the nearest ancestor that   *)
(* sets a field wins); every Pop removes the entry pushed for its node,    *)
(* and the stack is empty when the traversal ends.                         *)
C22_StackIsPathToNode ==
    mode = "encode" =>
        /\ \A k \in DOMAIN enc.log :
              LET n == enc.log[k].node
              IN /\ enc.log[k].styles = PathStyles(tree, n)
                 /\ \A j \in DOMAIN StyleFields :
                       enc.log[k].active_style[StyleFields[j]] =
                          Effective(tree, n, StyleFields[j])
        /\ enc.styles = OpenStyles
        /\ enc.pc = "returned" => enc.styles = <<>>

\* The traversal of a tree has ended in which a node two levels below the
\* root was pushed and a node set bold to false below an ancestor that set
\* it to true.
C22_Witness ==
    /\ mode = "encode" /\ enc.pc = "returned" /\ enc.styles = <<>>
    /\ \E k \in DOMAIN enc.log : Len(enc.log[k].styles) = 3
    /\ \E k \in DOMAIN enc.log :
          LET n == enc.log[k].node
          IN /\ tree[n].parent # 0
             /\ tree[n].style.bold = Some("false")
             /\ Effective(tree, tree[n].parent, "bold") = Some("true")
             /\ enc.log[k].active_style.bold = Some("false")


---------------------------------------------------------------------------
(* The component deserialize produces for each segment.                    *)

\* The non-empty segments of the input with the reset code put before it.
KeptSegments(value) ==
    SelectSeq(split(<<S, "r">> \o value), LAMBDA g : g # <<>>)

\* Content and style of the components of a result: the root, into which
\* flattened() lifts the first one, and the children.
Parts(result) ==
    {[content |-> result.content, style |-> result.style]}
    \cup {[content |-> result.extra[k].content,
           style |-> result.extra[k].style] : k \in DOMAIN result.extra}

\* The content made of what follows the leading character of a segment.
RestContent(segment) ==
    IF Len(segment) = 1 THEN Empty ELSE Text(Tail(segment))

ColorCodeChars ==
    {"0", "1", "2", "3", "4", "5", "6", "7", "8", "9",
     "a", "b", "c", "d", "e", "f"}

FormatCodeChars == {"l", "o", "n", "m", "k"}

\* The style with the five flags false, the given color and nothing else.
FlagsOffWith(color) ==
    [bold |-> Some("false"), italic |-> Some("false"),
     underlined |-> Some("false"), strikethrough |-> Some("false"),
     obfuscated |-> Some("false"), font |-> None, color |-> Some(color),
     insertion |-> None, click_event |-> None, hover_event |-> None]

\* The style with the one flag true and nothing else.
OnlyFlag(f) ==
    [g \in {"bold", "italic", "underlined", "strikethrough", "obfuscated",
            "font", "color", "insertion", "click_event", "hover_event"} |->
        IF g = f THEN Some("true") ELSE None]

\* The flag a format code stands for.
FlagOfFormatCode(code) ==
    CHOOSE f \in DOMAIN CodeOfFlag : CodeOfFlag[f] = code

\* deserialize has returned a component.
Decoded == mode = "decode" /\ dec.pc = "returned" /\ dec.result # Panic

(* C23: in deserialize, a segment that starts with a color code 0-9 or a-f *)
(* produces a component whose style sets that color and the five flags to  *)
(* false, and a segment that starts with 'r' one with the five flags false *)
(* and the color White; font, insertion, click and hover stay unset, and   *)
(* what follows the code is the component's text (Empty content when       *)
(* nothing follows).                                                       *)
C23_ColorCodeResetsFlags ==
    Decoded =>
        LET kept == KeptSegments(dec.value)
        IN /\ Len(dec.result.extra) + 1 = Len(kept)
           /\ \A k \in DOMAIN kept :
                 LET code == Head(kept[k])
                 IN /\ code \in ColorCodeChars =>
                          [content |-> RestContent(kept[k]),
                           style |-> FlagsOffWith(Named(
                              (CHOOSE p \in Range(ColorCodes) :
                                  p[2] = code)[1]))] \in Parts(dec.result)
                    /\ code = "r" =>
                          [content |-> RestContent(kept[k]),
                           style |-> FlagsOffWith(Named("White"))]
                             \in Parts(dec.result)

\* deserialize has returned for the code of Red followed by text.
C23_Witness ==
    /\ Decoded
    /\ dec.value = <<S, "c", "h", "i">>
    /\ dec.result.extra =
          <<create_flat(Text(<<"h", "i">>), FlagsOffWith(Named("Red")))>>

(* C24: in deserialize, a segment that starts with l, o, n, m or k         *)
(* produces a component whose style sets the flag of that code to true and *)
(* leaves every other field, the color included, unset; what follows the   *)
(* code is its text, and Empty content when nothing follows.               *)
C24_FormatCodeSetsOneFlag ==
    Decoded =>
        LET kept == KeptSegments(dec.value)
        IN \A k \in DOMAIN kept :
              Head(kept[k]) \in FormatCodeChars =>
                 [content |-> RestContent(kept[k]),
                  style |-> OnlyFlag(FlagOfFormatCode(Head(kept[k])))]
                    \in Parts(dec.result)

\* deserialize has returned for the strikethrough code followed by text.
C24_Witness ==
    /\ Decoded
    /\ dec.value = <<S, "m", "h", "i">>
    /\ dec.result.extra =
          <<create_flat(Text(<<"h", "i">>), OnlyFlag("strikethrough"))>>

(* C25: in deserialize, a segment whose leading character is no recognised *)
(* code (not 0-9, a-f, l, o, n, m, k, r; an uppercase letter for instance) *)
(* produces a component with a blank style whose text is the whole         *)
(* segment, the leading character included.                                *)
C25_UnknownCodeIsText ==
    Decoded =>
        LET kept == KeptSegments(dec.value)
        IN \A k \in DOMAIN kept :
              Head(kept[k]) \notin
                    ColorCodeChars \cup FormatCodeChars \cup {"r"} =>
                 [content |-> Text(kept[k]),
                  style |-> [f \in DOMAIN OnlyFlag("bold") |-> None]]
                    \in Parts(dec.result)

\* deserialize has returned for an uppercase L followed by text.
C25_Witness ==
    /\ Decoded
    /\ dec.value = <<S, "L", "h", "i">>
    /\ dec.result.extra = <<create_flat(Text(<<"L", "h", "i">>), BLANK)>>


---------------------------------------------------------------------------
(* Component::flattened (src/component.rs) called on its own.              *)

\* Largest number of children of the component given to flattened().
MaxFlatExtra == 3

\* The styles of the roots given to flattened().
FlatRootStyles ==
    {BLANK,
     [BLANK EXCEPT !.bold = Some("true"), !.color = Some(Named("Red"))],
     [BLANK EXCEPT !.italic = Some("true")]}

\* The children given to flattened(): pairwise different, one with Empty
\* content and one with a child of its own.
FlatChildren ==
    {create_flat(Text(<<"a">>), [BLANK EXCEPT !.bold = Some("false")]),
     create_flat(Text(<<"b">>), BLANK),
     create_flat(Empty, [BLANK EXCEPT !.color = Some(Named("Blue"))]),
     Component(Text(<<"c">>), [BLANK EXCEPT !.italic = Some("false")],
               <<create_flat(Text(<<"d">>), BLANK)>>)}

InitFlattened ==
    /\ mode = "flattened"
    /\ \E content \in {Empty, Text(<<"r">>)} :
         \E style \in FlatRootStyles :
           \E n \in 0 .. MaxFlatExtra :
             \E extra \in [1 .. n -> FlatChildren] :
               call = [pc |-> "called",
                       arg |-> Component(content, style, extra)]
    /\ tree = Idle /\ flat = Idle /\ ci = Idle /\ vis = Idle
    /\ enc = Idle /\ dec = Idle /\ sty = Idle
    /\ yielded = <<>> /\ nones = 0

\* component.flattened()
Flatten ==
    /\ mode = "flattened" /\ call.pc = "called"
    /\ call' = [pc |-> "returned", arg |-> call.arg,
                result |-> flattened(call.arg)]
    /\ UNCHANGED <<mode, tree, flat, ci, vis, yielded, nones, enc, dec, sty>>

NextFlattened == Flatten

SpecFlattened == InitFlattened /\ [][NextFlattened]_vars

\* flattened() has returned for a root with Empty content and children.
FlattenedSpliced ==
    /\ mode = "flattened" /\ call.pc = "returned"
    /\ call.arg.content = Empty /\ call.arg.extra # <<>>

(* C26: flattened() on a root with Empty content and children c1, ..., cn  *)
(* returns a component whose content is that of c1 and whose extra begins  *)
(* with c2, ..., cn in their original order.                               *)
C26_SiblingsKeepOrder ==
    FlattenedSpliced =>
        LET n == Len(call.arg.extra)
        IN /\ call.result.content = call.arg.extra[1].content
           /\ Len(call.result.extra) >= n - 1
           /\ SubSeq(call.result.extra, 1, n - 1) =
                 SubSeq(call.arg.extra, 2, n)

\* What the code returns: swap_remove(0) puts the last child where the
\* first one was, so extra is cn, c2, ..., c(n-1) and then the children of
\* c1.
C26_LastChildMovesFirst ==
    FlattenedSpliced =>
        LET n == Len(call.arg.extra)
        IN /\ call.result.content = call.arg.extra[1].content
           /\ call.result.extra =
                 (IF n = 1 THEN <<>>
                  ELSE <<call.arg.extra[n]>> \o SubSeq(call.arg.extra, 2, n - 1))
                 \o call.arg.extra[1].extra

(* C27: flattened() returns the component unchanged when its content is    *)
(* not Empty or it has no children; otherwise the style of the result is   *)
(* the root's style merged with the first child's: a field the child sets  *)
(* has the child's value, any other field keeps the root's.                *)
C27_UnchangedOrMergedStyle ==
    (mode = "flattened" /\ call.pc = "returned") =>
        IF call.arg.content # Empty \/ call.arg.extra = <<>>
        THEN call.result = call.arg
        ELSE \A f \in DOMAIN call.arg.style :
                call.result.style[f] =
                   IF call.arg.extra[1].style[f] # None
                   THEN call.arg.extra[1].style[f]
                   ELSE call.arg.style[f]

\* flattened() has returned for a bold red root whose first child sets bold
\* to false and no color: the result is not bold and red.
C27_Witness ==
    /\ FlattenedSpliced
    /\ call.arg.style.bold = Some("true")
    /\ call.arg.style.color = Some(Named("Red"))
    /\ call.arg.extra[1].style.bold = Some("false")
    /\ call.arg.extra[1].style.color = None
    /\ call.result.style.bold = Some("false")
    /\ call.result.style.color = Some(Named("Red"))


---------------------------------------------------------------------------
(* The text of a decoded component against the text of the input.          *)

\* The Text contents of a component and its descendants, depth first,
\* concatenated.
RECURSIVE ComponentText(_), ChildrenText(_)
ComponentText(component) ==
    (IF component.content.kind = "Text" THEN component.content.text
     ELSE <<>>) \o ChildrenText(component.extra)

ChildrenText(extra) ==
    IF extra = <<>> THEN <<>>
    ELSE ComponentText(Head(extra)) \o ChildrenText(Tail(extra))

\* The string without its control characters and without each recognised
\* code character that follows one.
RECURSIVE LiteralText(_)
LiteralText(value) ==
    IF value = <<>> THEN <<>>
    ELSE IF Head(value) # S THEN <<Head(value)>> \o LiteralText(Tail(value))
    ELSE IF Len(value) >= 2
            /\ value[2] \in ColorCodeChars \cup FormatCodeChars \cup {"r"}
         THEN LiteralText(Tail(Tail(value)))
         ELSE LiteralText(Tail(value))

\* The literal text of a kept segment.
PieceOf(segment) ==
    IF Head(segment) \in ColorCodeChars \cup FormatCodeChars \cup {"r"}
    THEN Tail(segment) ELSE segment

\* The pieces of the segments, concatenated in the given order.
RECURSIVE Pieces(_)
Pieces(segments) ==
    IF segments = <<>> THEN <<>>
    ELSE PieceOf(Head(segments)) \o Pieces(Tail(segments))

(* C28: for every input s, the Text contents of deserialize(s) taken depth *)
(* first and concatenated are the literal text of s, in the order in which *)
(* it occurs in s: decoding never reorders text.                           *)
C28_TextKeepsOrder ==
    Decoded => ComponentText(dec.result) = LiteralText(dec.value)

\* What the code returns: with three or more kept segments the text of the
\* last one comes right after that of the first.
C28_LastPieceMovesForward ==
    Decoded =>
        LET kept == KeptSegments(dec.value)
            n    == Len(kept)
        IN /\ Pieces(kept) = LiteralText(dec.value)
           /\ ComponentText(dec.result) =
                 IF n < 3 THEN Pieces(kept)
                 ELSE Pieces(<<kept[1], kept[n]>> \o SubSeq(kept, 2, n - 1))


---------------------------------------------------------------------------
(* The output of serialize as a legacy client reads it.                    *)

\* What serialize wrote for the k-th Push before the node's text.
CodesWritten(k) ==
    SubSeq(enc.log[k].chunk, 1,
           Len(enc.log[k].chunk) - Len(tree[enc.log[k].node].text))

(* C29: in the output of serialize, every control character the encoder    *)
(* writes itself is immediately followed by one of the recognised codes    *)
(* 0-9, a-f, l, o, n, m, k, for every tree, those with TextColor::Hex      *)
(* colors included.                                                        *)
C29_EveryCodeRecognised ==
    mode = "encode" =>
        \A k \in DOMAIN enc.log :
            LET codes == CodesWritten(k)
            IN /\ Len(codes) % 2 = 0
               /\ \A j \in DOMAIN codes :
                     j % 2 = 1 =>
                        /\ codes[j] = S
                        /\ codes[j + 1] \in ColorCodeChars \cup FormatCodeChars

\* What holds in the code: the codes written are recognised ones for every
\* node whose own color is not a hex color.
C29_RecognisedUnlessHex ==
    mode = "encode" =>
        \A k \in DOMAIN enc.log :
            LET codes == CodesWritten(k)
                own   == tree[enc.log[k].node].style
            IN /\ Len(codes) % 2 = 0
               /\ \A j \in DOMAIN codes :
                     j % 2 = 1 =>
                        /\ codes[j] = S
                        /\ codes[j + 1] \in
                              ColorCodeChars \cup FormatCodeChars \cup {NUL}
                        /\ codes[j + 1] = NUL =>
                              /\ j = 1
                              /\ IsSome(own.color)
                              /\ Unwrap(own.color).name = "Hex"

\* The state of a legacy client after reading a string: a color code sets
\* the color and clears the flags, a format code sets its flag, the reset
\* code clears both; anything else is text and leaves the state alone.
RECURSIVE ClientRead(_, _)
ClientRead(state, text) ==
    IF text = <<>> THEN state
    ELSE IF Head(text) = S /\ Len(text) >= 2
    THEN LET code == text[2]
         IN ClientRead(
              IF code \in ColorCodeChars
              THEN [color |-> {code}, flags |-> {}]
              ELSE IF code \in FormatCodeChars
              THEN [state EXCEPT !.flags = state.flags \cup {code}]
              ELSE IF code = "r" THEN [color |-> {}, flags |-> {}]
              ELSE state,
              Tail(Tail(text)))
    ELSE ClientRead(state, Tail(text))

\* The number of characters written by the first k Pushes.
RECURSIVE WrittenUpTo(_)
WrittenUpTo(k) ==
    IF k = 0 THEN 0 ELSE WrittenUpTo(k - 1) + Len(enc.log[k].chunk)

\* The state of the client when it reaches the text of the k-th Push.
ClientAt(k) ==
    ClientRead([color |-> {}, flags |-> {}],
               SubSeq(enc.out, 1,
                      WrittenUpTo(k) - Len(tree[enc.log[k].node].text)))

\* What the client should show for node i: the code of the effective
\* color, if any, and the codes of the effective true flags.
EffectiveRendering(t, i) ==
    [color |-> IF Effective(t, i, "color") = None THEN {}
               ELSE {CodeOfNamed(Unwrap(Effective(t, i, "color")).name)},
     flags |-> TrueFlagCodes(t, i)]

\* The tree is styled with named colors and flags only.
NamedColorsOnly(t) ==
    \A i \in DOMAIN t :
        t[i].style.color = None \/ Unwrap(t[i].style.color).name # "Hex"

(* C30: for every tree of Text nodes styled with named colors and flags    *)
(* only, a legacy client reading the output of serialize shows the text of *)
(* each node with the color and the true flags of the node's effective     *)
(* style, also for a node that follows a colored sibling subtree and for a *)
(* node that overrides an inherited flag to false.                         *)
C30_ClientShowsEffectiveStyle ==
    (mode = "encode" /\ NamedColorsOnly(tree)) =>
        \A k \in DOMAIN enc.log :
            ClientAt(k) = EffectiveRendering(tree, enc.log[k].node)

\* What holds in the code: the client shows the effective style for the
\* root and for every node that sets a color itself, since the color code
\* clears what was there and the true inherited flags are written again.
C30_ColoredNodesShowEffectiveStyle ==
    (mode = "encode" /\ NamedColorsOnly(tree)) =>
        \A k \in DOMAIN enc.log :
            (k = 1 \/ IsSome(tree[enc.log[k].node].style.color)) =>
                ClientAt(k) = EffectiveRendering(tree, enc.log[k].node)

====
